---- MODULE Spec2Model ----
(***************************************************************************)
(* Model of tools/validate-skill.js: the SkillValidator class and the      *)
(* command-line entry point.  Text is modelled character by character: a   *)
(* string is a sequence of one-character strings, and every regular        *)
(* expression of the source is an operator computing what the expression   *)
(* matches.                                                                *)
(***************************************************************************)
EXTENDS Integers, Sequences, FiniteSets, TLC

(***************************************************************************)
(* Characters and JavaScript string primitives                             *)
(***************************************************************************)
NL == "\n"
TAB == "\t"
BS == "\\"
\* the grave accent (U+0060), which a TLA+ string literal cannot hold
BT == "grave"
SP == " "

\* \s of a JavaScript regular expression, restricted to the characters used
WhiteSpace == {SP, NL, TAB}

LowerSeq == <<"a","b","c","d","e","f","g","h","i","j","k","l","m",
              "n","o","p","q","r","s","t","u","v","w","x","y","z">>
UpperSeq == <<"A","B","C","D","E","F","G","H","I","J","K","L","M",
              "N","O","P","Q","R","S","T","U","V","W","X","Y","Z">>
Lower == {LowerSeq[i] : i \in 1..26}
Upper == {UpperSeq[i] : i \in 1..26}
Digit == {"0","1","2","3","4","5","6","7","8","9"}

\* \w of a regular expression
WordChar == Lower \cup Upper \cup Digit \cup {"_"}

\* canonical form of a character under the i flag
ToLower(c) == IF c \in Upper THEN LowerSeq[CHOOSE i \in 1..26 : UpperSeq[i] = c] ELSE c

Min(S) == CHOOSE x \in S : \A y \in S : x <= y
Max(S) == CHOOSE x \in S : \A y \in S : y <= x

\* s.substring(a-1, b): the characters at positions a..b (1-based, inclusive)
Slice(s, a, b) == IF a > b THEN <<>> ELSE SubSeq(s, a, b)

\* whether pat occurs in s at position i
MatchAt(s, i, pat) ==
  /\ i >= 1
  /\ i + Len(pat) - 1 <= Len(s)
  /\ \A k \in 1..Len(pat) : s[i + k - 1] = pat[k]

\* the same, ignoring letter case (pat is given in lower case)
MatchAtCI(s, i, pat) ==
  /\ i >= 1
  /\ i + Len(pat) - 1 <= Len(s)
  /\ \A k \in 1..Len(pat) : ToLower(s[i + k - 1]) = pat[k]

\* String.prototype.startsWith
StartsWith(s, pat) == MatchAt(s, 1, pat)

ContainsCI(s, pat) == \E i \in 1..Len(s) : MatchAtCI(s, i, pat)

\* String.prototype.trim
Trim(s) ==
  LET keep == {i \in 1..Len(s) : s[i] \notin WhiteSpace}
      last == CHOOSE e \in keep : \A j \in (e + 1)..Len(s) : s[j] \in WhiteSpace
  IN IF keep = {} THEN <<>> ELSE Slice(s, Min(keep), last)

\* position of the last character of the line that holds position k
\* (the character before the next line terminator, or the end of s)
LineEnd(s, k) ==
  LET ends == {e \in k..Len(s) : s[e] = NL}
  IN IF ends = {} THEN Len(s) ELSE Min(ends) - 1

\* ^ under the m flag: the start of the input or just after a line terminator
LineStart(s, i) == i = 1 \/ (i > 1 /\ i <= Len(s) + 1 /\ s[i - 1] = NL)

\* the "no match" result of String.prototype.match
NoMatch == [found |-> FALSE, text |-> <<>>]
Found(t) == [found |-> TRUE, text |-> t]

(***************************************************************************)
(* Diagnostics.  A message is a tuple: its fixed text, then the values the *)
(* template literal interpolates.  Each validator below returns what it    *)
(* pushes on this.errors and this.warnings, what it prints, and the        *)
(* methods it calls.                                                       *)
(***************************************************************************)
Effect(e, w, o, c) == [errors |-> e, warnings |-> w, out |-> o, calls |-> c]

RECURSIVE Flatten(_)
Flatten(seqs) == IF seqs = <<>> THEN <<>> ELSE Head(seqs) \o Flatten(Tail(seqs))

\* the effect of statements run one after the other
Do(effects) ==
  [errors |-> Flatten([i \in 1..Len(effects) |-> effects[i].errors]),
   warnings |-> Flatten([i \in 1..Len(effects) |-> effects[i].warnings]),
   out |-> Flatten([i \in 1..Len(effects) |-> effects[i].out]),
   calls |-> Flatten([i \in 1..Len(effects) |-> effects[i].calls])]

PushError(cond, msg) == Effect(IF cond THEN <<msg>> ELSE <<>>, <<>>, <<>>, <<>>)
PushWarning(cond, msg) == Effect(<<>>, IF cond THEN <<msg>> ELSE <<>>, <<>>, <<>>)
Log(line) == Effect(<<>>, <<>>, <<line>>, <<>>)
Call(method) == Effect(<<>>, <<>>, <<>>, <<method>>)
Nothing == Effect(<<>>, <<>>, <<>>, <<>>)

(***************************************************************************)
(* validateName                                                            *)
(***************************************************************************)
NameMaxLength == 64

\* /^[a-z0-9-]+$/
NameFormat(name) ==
  /\ Len(name) >= 1
  /\ \A i \in 1..Len(name) : name[i] \in Lower \cup Digit \cup {"-"}

\* the reserved-word check without the i flag
ReservedWords_CaseSensitive(name) ==
  \/ \E i \in 1..Len(name) : MatchAt(name, i, <<"a","n","t","h","r","o","p","i","c">>)
  \/ \E i \in 1..Len(name) : MatchAt(name, i, <<"c","l","a","u","d","e">>)

\* /anthropic|claude/i
ReservedWords(name) ==
  \/ ContainsCI(name, <<"a","n","t","h","r","o","p","i","c">>)
  \/ ContainsCI(name, <<"c","l","a","u","d","e">>)

\* /<|>/
XmlTags(s) == \E i \in 1..Len(s) : s[i] \in {"<", ">"}

vagueNames == {<<"h","e","l","p","e","r">>, <<"u","t","i","l","s">>,
               <<"t","o","o","l","s">>, <<"s","k","i","l","l">>}

\* the length check off by one
NameTooLong_OffByOne(name) == Len(name) >= NameMaxLength

NameTooLong(name) == Len(name) > NameMaxLength

NameIsVague(name) == name \in vagueNames

\* validateName reporting a vague name as an Error
validateName_VagueIsError(name) ==
  Do(<< Call("validateName"),
        PushError(NameTooLong(name), <<"name is too long", Len(name)>>),
        PushError(~NameFormat(name),
          <<"name must contain only lowercase letters, numbers, and hyphens">>),
        PushError(ReservedWords(name), <<"name cannot contain reserved words">>),
        PushError(XmlTags(name), <<"name cannot contain XML tags">>),
        PushError(NameIsVague(name), <<"name is too vague", name>>),
        Log(<<"name field valid", name>>) >>)

validateName(name) ==
  Do(<< Call("validateName"),
        PushError(NameTooLong(name), <<"name is too long", Len(name)>>),
        PushError(~NameFormat(name),
          <<"name must contain only lowercase letters, numbers, and hyphens">>),
        PushError(ReservedWords(name), <<"name cannot contain reserved words">>),
        PushError(XmlTags(name), <<"name cannot contain XML tags">>),
        PushWarning(NameIsVague(name), <<"name is too vague", name>>),
        Log(<<"name field valid", name>>) >>)

(***************************************************************************)
(* validateDescription                                                     *)
(***************************************************************************)
DescriptionMaxLength == 1024

Pronouns == {<<"i">>, <<"m","e">>, <<"m","y">>, <<"y","o","u">>, <<"y","o","u","r">>}

\* /\b(I|me|my|you|your)\b/i
FirstOrSecondPerson(s) ==
  \E i \in 1..Len(s) : \E w \in Pronouns :
    /\ MatchAtCI(s, i, w)
    /\ (i = 1 \/ s[i - 1] \notin WordChar)
    /\ (i + Len(w) > Len(s) \/ s[i + Len(w)] \notin WordChar)

\* /use when/i
UseWhen(s) == ContainsCI(s, <<"u","s","e"," ","w","h","e","n">>)

\* the length check off by one
DescriptionTooLong_OffByOne(description) == Len(description) >= DescriptionMaxLength

DescriptionTooLong(description) == Len(description) > DescriptionMaxLength

DescriptionEmpty(description) == Len(Trim(description)) = 0

validateDescription(description) ==
  Do(<< Call("validateDescription"),
        PushError(DescriptionTooLong(description),
          <<"description is too long", Len(description)>>),
        PushError(DescriptionEmpty(description), <<"description cannot be empty">>),
        PushError(XmlTags(description), <<"description cannot contain XML tags">>),
        PushWarning(FirstOrSecondPerson(description),
          <<"description should use third person">>),
        PushWarning(~UseWhen(description), <<"description should include Use when">>),
        Log(<<"description field valid", Len(description)>>) >>)

(***************************************************************************)
(* validateAllowedTools                                                    *)
(***************************************************************************)
validTools == {<<"R","e","a","d">>, <<"W","r","i","t","e">>, <<"E","d","i","t">>,
               <<"G","l","o","b">>, <<"G","r","e","p">>, <<"B","a","s","h">>,
               <<"T","a","s","k">>, <<"W","e","b","F","e","t","c","h">>,
               <<"W","e","b","S","e","a","r","c","h">>}

\* [,\s]
ToolSeparator == WhiteSpace \cup {","}

\* tools.split(/[,\s]+/).filter(t => t.length > 0): the maximal runs of
\* characters that are not separators, in order
RECURSIVE SplitTools(_, _)
SplitTools(s, from) ==
  LET starts == {i \in from..Len(s) : s[i] \notin ToolSeparator}
  IN IF starts = {} THEN <<>>
     ELSE LET a == Min(starts)
              stops == {i \in a..Len(s) : s[i] \in ToolSeparator}
              b == IF stops = {} THEN Len(s) ELSE Min(stops) - 1
          IN <<Slice(s, a, b)>> \o SplitTools(s, b + 1)

\* toolList.forEach
UnknownToolWarnings(toolList) ==
  Do([i \in 1..Len(toolList) |->
        PushWarning(toolList[i] \notin validTools,
          <<"Unknown tool in allowed-tools", toolList[i]>>)])

validateAllowedTools(tools) ==
  Do(<< Call("validateAllowedTools"),
        UnknownToolWarnings(SplitTools(tools, 1)),
        Log(<<"allowed-tools field valid", tools>>) >>)

(***************************************************************************)
(* validateFrontmatter                                                     *)
(***************************************************************************)
\* /^---\n([\s\S]*?)\n---/ : the input starts with "---\n"; the group is
\* the shortest text after it that is followed by "\n---"
frontmatterRegex(content) ==
  LET closes == {p \in 5..Len(content) : MatchAt(content, p, <<NL,"-","-","-">>)}
  IN IF StartsWith(content, <<"-","-","-",NL>>) /\ closes # {}
     THEN Found(Slice(content, 5, Min(closes) - 1))
     ELSE NoMatch

\* the capture group of /^key\s*(.+)$/m tried at line start i: \s* is
\* greedy and may run over line terminators, (.+) takes the rest of the line
\* it starts on and needs one character that is not a line terminator
FieldCaptureStarts(s, i, key) ==
  LET q == i + Len(key)
      nonSpace == {e \in q..Len(s) : s[e] \notin WhiteSpace}
      wsEnd == IF nonSpace = {} THEN Len(s) + 1 ELSE Min(nonSpace)
  IN {k \in q..wsEnd : k <= Len(s) /\ s[k] # NL}

\* frontmatter.match(/^key\s*(.+)$/m): the leftmost line start that matches
FieldRegex(s, key) ==
  LET at == {i \in 1..Len(s) : /\ LineStart(s, i)
                                /\ MatchAt(s, i, key)
                                /\ FieldCaptureStarts(s, i, key) # {}}
  IN IF at = {} THEN NoMatch
     ELSE LET k == Max(FieldCaptureStarts(s, Min(at), key))
          IN Found(Slice(s, k, LineEnd(s, k)))

nameMatch(frontmatter) == FieldRegex(frontmatter, <<"n","a","m","e",":">>)
descMatch(frontmatter) ==
  FieldRegex(frontmatter, <<"d","e","s","c","r","i","p","t","i","o","n",":">>)
allowedToolsMatch(frontmatter) ==
  FieldRegex(frontmatter, <<"a","l","l","o","w","e","d","-","t","o","o","l","s",":">>)

\* validateFrontmatter giving up at the first missing field
validateFrontmatter_FailFast(content) ==
  LET match == frontmatterRegex(content)
      frontmatter == match.text
      name == nameMatch(frontmatter)
      desc == descMatch(frontmatter)
      tools == allowedToolsMatch(frontmatter)
  IN IF ~match.found
     THEN Do(<< Call("validateFrontmatter"),
                PushError(TRUE, <<"YAML frontmatter is required but not found">>) >>)
     ELSE IF ~name.found
     THEN Do(<< Call("validateFrontmatter"),
                PushError(TRUE, <<"name field is required in frontmatter">>) >>)
     ELSE IF ~desc.found
     THEN Do(<< Call("validateFrontmatter"),
                validateName(Trim(name.text)),
                PushError(TRUE, <<"description field is required in frontmatter">>) >>)
     ELSE Do(<< Call("validateFrontmatter"),
                validateName(Trim(name.text)),
                validateDescription(Trim(desc.text)),
                IF tools.found
                THEN validateAllowedTools(Trim(tools.text))
                ELSE Nothing >>)

\* validateFrontmatter checking the description before the name
validateFrontmatter_DescriptionFirst(content) ==
  LET match == frontmatterRegex(content)
      frontmatter == match.text
      name == nameMatch(frontmatter)
      desc == descMatch(frontmatter)
      tools == allowedToolsMatch(frontmatter)
  IN IF ~match.found
     THEN Do(<< Call("validateFrontmatter"),
                PushError(TRUE, <<"YAML frontmatter is required but not found">>) >>)
     ELSE Do(<< Call("validateFrontmatter"),
                IF ~desc.found
                THEN PushError(TRUE, <<"description field is required in frontmatter">>)
                ELSE validateDescription(Trim(desc.text)),
                IF ~name.found
                THEN PushError(TRUE, <<"name field is required in frontmatter">>)
                ELSE validateName(Trim(name.text)),
                IF tools.found
                THEN validateAllowedTools(Trim(tools.text))
                ELSE Nothing >>)

validateFrontmatter(content) ==
  LET match == frontmatterRegex(content)
      frontmatter == match.text
      name == nameMatch(frontmatter)
      desc == descMatch(frontmatter)
      tools == allowedToolsMatch(frontmatter)
  IN IF ~match.found
     THEN Do(<< Call("validateFrontmatter"),
                PushError(TRUE, <<"YAML frontmatter is required but not found">>) >>)
     ELSE Do(<< Call("validateFrontmatter"),
                IF ~name.found
                THEN PushError(TRUE, <<"name field is required in frontmatter">>)
                ELSE validateName(Trim(name.text)),
                IF ~desc.found
                THEN PushError(TRUE, <<"description field is required in frontmatter">>)
                ELSE validateDescription(Trim(desc.text)),
                IF tools.found
                THEN validateAllowedTools(Trim(tools.text))
                ELSE Nothing >>)

(***************************************************************************)
(* validateFileStructure                                                   *)
(***************************************************************************)
BodyLineLimit == 500

\* content.split('\n').length
LineCount(content) == Cardinality({i \in 1..Len(content) : content[i] = NL}) + 1

\* the start positions of the lines l with l === '---'
DelimiterLines(content) ==
  {p \in 1..Len(content) :
     /\ LineStart(content, p)
     /\ MatchAt(content, p, <<"-","-","-">>)
     /\ (p + 3 > Len(content) \/ content[p + 3] = NL)}

\* lines.findIndex(l => l === '---', 1): the second argument of findIndex is
\* the callback's this value, so the search starts at the first line; the
\* result is a 0-based line index, or -1
DelimiterIndex(content) ==
  IF DelimiterLines(content) = {} THEN -1
  ELSE Cardinality({i \in 1..(Min(DelimiterLines(content)) - 1) : content[i] = NL})

\* lines.slice(index + 1).length
bodyLineCount(content) == LineCount(content) - (DelimiterIndex(content) + 1)

validateFileStructure(content) ==
  Do(<< Call("validateFileStructure"),
        IF bodyLineCount(content) > BodyLineLimit
        THEN PushWarning(TRUE, <<"SKILL.md is too long", bodyLineCount(content)>>)
        ELSE Log(<<"SKILL.md length", bodyLineCount(content)>>) >>)

(***************************************************************************)
(* validateContent                                                         *)
(***************************************************************************)
\* [^n\\r\\t\s] : anything but n, r, t, a backslash or white space
NotEscapeChar(c) == c \notin {"n", "r", "t", BS} \cup WhiteSpace

\* /[^`]\\[^n\\r\\t\s]/
backslashPattern(content) ==
  \E i \in 2..(Len(content) - 1) :
    /\ content[i] = BS
    /\ content[i - 1] # BT
    /\ NotEscapeChar(content[i + 1])

\* content.match(/\\.+/g)[0]: from the first backslash that is followed by a
\* character other than a line terminator, to the end of its line
FirstBackslashRun(content) ==
  LET at == {i \in 1..(Len(content) - 1) : content[i] = BS /\ content[i + 1] # NL}
  IN IF at = {} THEN <<>> ELSE Slice(content, Min(at), LineEnd(content, Min(at)))

\* /word \d{4}/i
WordThenYear(content, word) ==
  \E i \in 1..Len(content) :
    /\ MatchAtCI(content, i, word)
    /\ i + Len(word) + 3 <= Len(content)
    /\ \A k \in 0..3 : content[i + Len(word) + k] \in Digit

timePatterns == << <<"b","e","f","o","r","e"," ">>, <<"a","f","t","e","r"," ">>,
                   <<"u","n","t","i","l"," ">>, <<"a","s"," ","o","f"," ">> >>

\* one Warning for the whole check, whichever patterns match
TimeWarnings_OncePerRun(content) ==
  PushWarning(\E i \in 1..Len(timePatterns) : WordThenYear(content, timePatterns[i]),
    <<"Time-sensitive information detected">>)

\* timePatterns.forEach
TimeWarnings(content) ==
  Do([i \in 1..Len(timePatterns) |->
        PushWarning(WordThenYear(content, timePatterns[i]),
          <<"Time-sensitive information detected">>)])

validateContent(content) ==
  Do(<< Call("validateContent"),
        IF backslashPattern(content)
        THEN PushError(TRUE, <<"Windows-style paths found", FirstBackslashRun(content)>>)
        ELSE Log(<<"No Windows-style paths found">>),
        TimeWarnings(content) >>)

(***************************************************************************)
(* validateReferences                                                      *)
(***************************************************************************)
\* /\[([^\]]+)\]\(([^)]+)\)/ tried at position i: "[", one or more
\* characters other than "]", "](", one or more characters other than ")",
\* ")".  The result is the position of the closing ")" or 0.
LinkEnd(content, i) ==
  LET n == Len(content)
      closeB == {j \in (i + 1)..n : content[j] = "]"}
      j == IF closeB = {} THEN 0 ELSE Min(closeB)
      closeP == IF j = 0 THEN {} ELSE {k \in (j + 2)..n : content[k] = ")"}
      k == IF closeP = {} THEN 0 ELSE Min(closeP)
  IN IF /\ i <= n /\ content[i] = "["
        /\ j >= i + 2
        /\ j + 1 <= n /\ content[j + 1] = "("
        /\ k >= j + 3
     THEN k ELSE 0

\* match[2] of the link that starts at i and ends at k
LinkPath(content, i, k) ==
  LET j == Min({x \in (i + 1)..k : content[x] = "]"})
  IN Slice(content, j + 2, k - 1)

\* the while loop over linkRegex.exec: every link target, in order, each
\* search resuming after the previous match
RECURSIVE LinkPaths(_, _)
LinkPaths(content, from) ==
  LET starts == {i \in from..Len(content) : LinkEnd(content, i) # 0}
  IN IF starts = {} THEN <<>>
     ELSE LET i == Min(starts)
              k == LinkEnd(content, i)
          IN <<LinkPath(content, i, k)>> \o LinkPaths(content, k + 1)

IsExternal(linkPath) ==
  \/ StartsWith(linkPath, <<"h","t","t","p",":","/","/">>)
  \/ StartsWith(linkPath, <<"h","t","t","p","s",":","/","/">>)

\* the resolver without the test for anchors
IsAnchor_Never(linkPath) == FALSE

IsAnchor(linkPath) == StartsWith(linkPath, <<"#">>)

\* the references array: the link targets that are neither external nor anchors
References(content) ==
  SelectSeq(LinkPaths(content, 1), LAMBDA l : ~IsExternal(l) /\ ~IsAnchor(l))

\* ref.split('/')
RECURSIVE Segments(_, _)
Segments(ref, from) ==
  LET slashes == {i \in from..Len(ref) : ref[i] = "/"}
  IN IF slashes = {} THEN <<Slice(ref, from, Len(ref))>>
     ELSE <<Slice(ref, from, Min(slashes) - 1)>> \o Segments(ref, Min(slashes) + 1)

\* path.join(this.skillPath, ref), as a place relative to the skill
\* directory: `up` levels above it, then down the segments `down`.  Empty
\* and "." segments are dropped and ".." removes the segment before it.
RECURSIVE Resolve(_, _)
Resolve(segments, place) ==
  IF segments = <<>> THEN place
  ELSE LET seg == Head(segments)
           next == IF seg = <<>> \/ seg = <<".">> THEN place
                   ELSE IF seg = <<".",".">>
                        THEN IF place.down = <<>>
                             THEN [up |-> place.up + 1, down |-> <<>>]
                             ELSE [up |-> place.up,
                                   down |-> SubSeq(place.down, 1, Len(place.down) - 1)]
                        ELSE [up |-> place.up, down |-> Append(place.down, seg)]
       IN Resolve(Tail(segments), next)

SkillDir == [up |-> 0, down |-> <<>>]

PathJoin(ref) == Resolve(Segments(ref, 1), SkillDir)

\* references.forEach: one error for each reference that does not exist
MissingReferences(references, existing) ==
  Do([i \in 1..Len(references) |->
        PushError(PathJoin(references[i]) \notin existing,
          <<"Referenced file does not exist", references[i]>>)])

validateReferences(content, existing) ==
  LET references == References(content)
  IN Do(<< Call("validateReferences"),
           MissingReferences(references, existing),
           IF Len(references) > 0
           THEN Log(<<"file reference(s) found and validated", Len(references)>>)
           ELSE Nothing >>)

(***************************************************************************)
(* report                                                                  *)
(***************************************************************************)
Numbered(list) == [i \in 1..Len(list) |-> <<"item", i, list[i]>>]

Banner == << <<"VALIDATION RESULTS">> >>

\* report() printing the warning list before the error list
ReportLines_WarningsFirst(errs, warns) ==
  IF Len(errs) = 0 /\ Len(warns) = 0
  THEN Banner \o << <<"All validations passed!">>, <<"Skill is ready to use">> >>
  ELSE Banner
       \o (IF Len(warns) > 0
           THEN << <<"Found warning(s)", Len(warns)>> >> \o Numbered(warns)
           ELSE <<>>)
       \o (IF Len(errs) > 0
           THEN << <<"Found error(s)", Len(errs)>> >> \o Numbered(errs)
           ELSE <<>>)
       \o (IF Len(errs) > 0
           THEN << <<"Validation failed">> >>
           ELSE << <<"Validation passed with warnings">> >>)

\* the lines report() prints
ReportLines(errs, warns) ==
  IF Len(errs) = 0 /\ Len(warns) = 0
  THEN Banner \o << <<"All validations passed!">>, <<"Skill is ready to use">> >>
  ELSE Banner
       \o (IF Len(errs) > 0
           THEN << <<"Found error(s)", Len(errs)>> >> \o Numbered(errs)
           ELSE <<>>)
       \o (IF Len(warns) > 0
           THEN << <<"Found warning(s)", Len(warns)>> >> \o Numbered(warns)
           ELSE <<>>)
       \o (IF Len(errs) > 0
           THEN << <<"Validation failed">> >>
           ELSE << <<"Validation passed with warnings">> >>)

\* report() with a verdict that warnings fail as well
report_WarningsFail(errs, warns) ==
  [out |-> ReportLines(errs, warns),
   result |-> Len(errs) = 0 /\ Len(warns) = 0]

\* the lines report() prints and the value it returns
report(errs, warns) ==
  [out |-> ReportLines(errs, warns),
   result |-> IF Len(errs) = 0 /\ Len(warns) = 0 THEN TRUE
              ELSE IF Len(errs) > 0 THEN FALSE ELSE TRUE]

(***************************************************************************)
(* The packages the validator is run on                                    *)
(***************************************************************************)
\* sizes of the oversized inputs
LongNameLength == 65
LongDescriptionLength == 1200
LongBodyLines == 501

Repeat(c, n) == <<>> \o [i \in 1..n |-> c]

NamePrefix == <<"n","a","m","e",":"," ">>
DescriptionPrefix == <<"d","e","s","c","r","i","p","t","i","o","n",":"," ">>
UseWhenText == <<"U","s","e"," ","w","h","e","n"," ">>

\* the `name:` line of the header; <<>> when the header has none
NameLines ==
  { <<>>,
    NamePrefix \o <<"m","y","-","s","k","i","l","l",NL>>,
    NamePrefix \o <<"M","y","_","S","k","i","l","l",NL>>,
    NamePrefix \o <<"m","y","-","C","l","a","u","d","e",NL>>,
    NamePrefix \o <<"h","e","l","p","e","r",NL>>,
    NamePrefix \o <<"a","<","b",NL>>,
    NamePrefix \o Repeat("a", LongNameLength) \o <<NL>>,
    NamePrefix \o <<NL>> }

\* the `description:` line of the header
DescriptionLines ==
  { <<>>,
    DescriptionPrefix \o <<"D","o","e","s"," ","X","."," ","U","s","e"," ","w","h","e","n"," ","Y",".",NL>>,
    DescriptionPrefix \o <<"I"," ","h","e","l","p"," ","y","o","u",NL>>,
    DescriptionPrefix \o <<"U","s","e"," ","w","h","e","n"," ","<","b",">",NL>>,
    DescriptionPrefix \o UseWhenText
       \o Repeat("x", LongDescriptionLength - Len(UseWhenText)) \o <<NL>>,
    DescriptionPrefix \o UseWhenText
       \o Repeat("x", DescriptionMaxLength - Len(UseWhenText)) \o <<NL>>,
    DescriptionPrefix \o <<NL>> }

\* the `allowed-tools:` line of the header
ToolLines ==
  { <<>>,
    <<"a","l","l","o","w","e","d","-","t","o","o","l","s",":"," ","R","e","a","d",","," ","G","r","e","p",NL>>,
    <<"a","l","l","o","w","e","d","-","t","o","o","l","s",":"," ","R","e","a","d",",","F","o","o"," ","F","o","o",NL>> }

Title == <<"#"," ","T","i","t","l","e",NL,"T","e","x","t",".",NL>>

\* the text after the header
Bodies ==
  { Title,
    Title \o <<"R","u","n"," ","s","c","r","i","p","t","s",BS,"v","a","l","i","d","a","t","e",".","p","y",NL>>,
    Title \o <<"A","s"," ","o","f"," ","2","0","2","4"," ","i","t"," ","w","o","r","k","s",".",NL>>,
    Title \o <<"S","e","e"," ","[","r","e","f","]","(","m","i","s","s","i","n","g",".","m","d",")",NL>>,
    Title \o <<"S","e","e"," ","[","s","i","t","e","]","(","h","t","t","p","s",":","/","/","x",".","i","o",")"," ","a","n","d"," ","[","t","o","p","]","(","#","t","o","p",")",NL>>,
    Title \o Repeat(NL, LongBodyLines),
    Title \o <<"S","e","e"," ","[","r","e","f","]","(","m","i","s","s","i","n","g",".","m","d",")",NL>>
          \o <<"U","n","t","i","l"," ","2","0","2","4",".",NL>>
          \o <<"R","u","n"," ","a",BS,"b",NL>> }

Delimiter == <<"-","-","-",NL>>

\* a primary document with a header, and one without any delimiter line
WithHeader(name, description, tools, body) ==
  Delimiter \o name \o description \o tools \o Delimiter \o body

Documents ==
  { WithHeader(n, d, t, b) : n \in NameLines, d \in DescriptionLines,
                             t \in ToolLines, b \in Bodies }
  \cup Bodies

MissingMd == [up |-> 0, down |-> << <<"m","i","s","s","i","n","g",".","m","d">> >>]

\* the files that exist beside SKILL.md
FileSets == { {}, {MissingMd} }

NoText == <<>>

\* the state of the file system at the path given on the command line
Packages ==
  { [dir |-> FALSE, skillMd |-> "missing", text |-> NoText, files |-> {}],
    [dir |-> TRUE, skillMd |-> "missing", text |-> NoText, files |-> {}],
    [dir |-> TRUE, skillMd |-> "unreadable", text |-> NoText, files |-> {}] }
  \cup { [dir |-> TRUE, skillMd |-> "file", text |-> doc, files |-> f] :
           doc \in Documents, f \in FileSets }

(***************************************************************************)
(* Packages that differ only in the value of one header field: the field   *)
(* is the last line of the header and its value is put together from a few *)
(* pieces, so that every length and every mix of characters near the       *)
(* limits occurs.                                                          *)
(***************************************************************************)
MaxNameParts == 3
MaxDescriptionParts == 2

\* with one or two more characters a name of this length reaches the limit
NameFillerLength == 63

\* every concatenation of at most n of the pieces
RECURSIVE Concatenations(_, _)
Concatenations(pieces, n) ==
  IF n = 0 THEN {<<>>}
  ELSE LET shorter == Concatenations(pieces, n - 1)
       IN shorter \cup {s \o p : s \in shorter, p \in pieces}

NamePieces ==
  { <<"a">>, <<"7">>, <<"-">>, <<"X">>, <<"_">>, <<"<">>,
    <<"c","l","a","u","d","e">>,
    <<"A","N","T","H","R","O","P","I","C">>,
    Repeat("a", NameFillerLength) }

NameInputs == Concatenations(NamePieces, MaxNameParts)

DescriptionPieces ==
  { UseWhenText, <<"x">>, <<"<">>, <<">">>,
    Repeat("x", DescriptionMaxLength - Len(UseWhenText)),
    Repeat("x", LongDescriptionLength - Len(UseWhenText)) }

DescriptionInputs == Concatenations(DescriptionPieces, MaxDescriptionParts)

GoodNameLine == NamePrefix \o <<"m","y","-","s","k","i","l","l",NL>>
GoodDescriptionLine ==
  DescriptionPrefix \o <<"D","o","e","s"," ","X","."," ","U","s","e"," ","w","h","e","n"," ","Y",".",NL>>

NameDocuments ==
  { Delimiter \o GoodDescriptionLine \o NamePrefix \o n \o <<NL>> \o Delimiter \o Title :
      n \in NameInputs }

DescriptionDocuments ==
  { Delimiter \o GoodNameLine \o DescriptionPrefix \o d \o <<NL>> \o Delimiter \o Title :
      d \in DescriptionInputs }

PackagesOf(documents) ==
  { [dir |-> TRUE, skillMd |-> "file", text |-> doc, files |-> {}] : doc \in documents }

\* process.argv[2]: absent, the empty string, or the path of the package
Root == <<"p","k","g">>
Arguments == { [given |-> FALSE, value |-> <<>>],
               [given |-> TRUE, value |-> <<>>],
               [given |-> TRUE, value |-> Root] }

\* the argument check testing for the empty string only
Falsy_EmptyOnly(a) == a.given /\ a.value = <<>>

\* !skillPath
Falsy(a) == ~a.given \/ a.value = <<>>

(***************************************************************************)
(* The program: the main execution block and the run of one SkillValidator *)
(***************************************************************************)
VARIABLES
  argv,        \* process.argv[2]
  fs,          \* the file system at that path
  pc,          \* the statement the program is at
  validator,   \* whether new SkillValidator(skillPath) has run, and its skillPath
  content,     \* the text validate() read from SKILL.md
  errors,      \* this.errors
  warnings,    \* this.warnings
  stdout,      \* the lines printed with console.log
  stderr,      \* the lines printed with console.error
  calls,       \* the methods of the validator called so far, in order
  fsAccess,    \* the calls of fs.existsSync and fs.readFileSync so far
  success,     \* the value validate() returned
  exitCode,    \* the status the process exited with
  finished,    \* what the earlier runs on this package came to, oldest first
  wizard       \* the scaffolding wizard: its answers so far, its console and its disk

vars == <<argv, fs, pc, validator, content, errors, warnings, stdout, stderr,
          calls, fsAccess, success, exitCode, finished, wizard>>

NoValidator == [constructed |-> FALSE, skillPath |-> <<>>]
\* scaffold-skill.js is not running
NoWizard == [pc |-> "off"]
\* validate() has not returned; otherwise success holds the value returned
NotReturned == <<>>
\* the process has not exited
Running == -1

\* fs.existsSync(this.skillPath)
DirExists(f) == f.dir

\* the check of SKILL.md left out
SkillMdExists_Always(f) == TRUE

\* fs.existsSync(this.skillMdPath)
SkillMdExists(f) == f.dir /\ f.skillMd # "missing"

\* whether fs.readFileSync(this.skillMdPath, 'utf-8') returns (it throws on
\* a directory and on a file the process may not read)
SkillMdReadable(f) == f.skillMd = "file"

\* the program starts with one of `arguments` on one of `packages`
InitWith(arguments, packages) ==
  /\ argv \in arguments
  /\ fs \in packages
  /\ pc = "main"
  /\ validator = NoValidator
  /\ content = NoText
  /\ errors = <<>>
  /\ warnings = <<>>
  /\ stdout = <<>>
  /\ stderr = <<>>
  /\ calls = <<>>
  /\ fsAccess = <<>>
  /\ success = NotReturned
  /\ exitCode = Running
  /\ finished = <<>>
  /\ wizard = NoWizard

Init == InitWith(Arguments, Packages)

\* a validator method has run: its effect on the validator and the console
Apply(effect) ==
  /\ errors' = errors \o effect.errors
  /\ warnings' = warnings \o effect.warnings
  /\ stdout' = stdout \o effect.out
  /\ calls' = calls \o effect.calls

\* `return this.report()` after the statements with effect `effect`
ReturnReport(effect) ==
  LET errs == errors \o effect.errors
      warns == warnings \o effect.warnings
      r == report(errs, warns)
  IN /\ errors' = errs
     /\ warnings' = warns
     /\ stdout' = stdout \o effect.out \o r.out
     /\ calls' = calls \o effect.calls \o <<"report">>
     /\ success' = <<r.result>>
     /\ pc' = "exit"

\* lines 282-290: the argument check, then new SkillValidator(skillPath)
Main ==
  /\ pc = "main"
  /\ IF Falsy(argv)
     THEN /\ stderr' = stderr \o << <<"Usage">>, <<"Example">> >>
          /\ exitCode' = 1
          /\ pc' = "exited"
          /\ UNCHANGED <<validator, errors, warnings>>
     ELSE /\ validator' = [constructed |-> TRUE, skillPath |-> argv.value]
          /\ errors' = <<>>
          /\ warnings' = <<>>
          /\ pc' = "validate"
          /\ UNCHANGED <<stderr, exitCode>>
  /\ UNCHANGED <<wizard, finished, argv, fs, content, stdout, calls, fsAccess, success>>

\* validate(), lines 23-38: the two existence checks and the read of SKILL.md
Validate ==
  /\ pc = "validate"
  /\ LET start == Do(<< Call("validate"), Log(<<"Validating skill at", validator.skillPath>>) >>)
     IN IF ~DirExists(fs)
        THEN /\ ReturnReport(Do(<< start,
                  PushError(TRUE, <<"Skill directory does not exist", validator.skillPath>>) >>))
             /\ fsAccess' = fsAccess \o <<"existsSync skillPath">>
             /\ UNCHANGED <<content, stderr, exitCode>>
        ELSE IF ~SkillMdExists(fs)
        THEN /\ ReturnReport(Do(<< start,
                  PushError(TRUE, <<"SKILL.md file is required but not found">>) >>))
             /\ fsAccess' = fsAccess \o <<"existsSync skillPath", "existsSync skillMdPath">>
             /\ UNCHANGED <<content, stderr, exitCode>>
        ELSE IF ~SkillMdReadable(fs)
        THEN \* readFileSync throws; nothing catches it and node exits with 1
             /\ Apply(start)
             /\ fsAccess' = fsAccess \o <<"existsSync skillPath", "existsSync skillMdPath",
                                          "readFileSync skillMdPath">>
             /\ stderr' = stderr \o << <<"Uncaught Error">> >>
             /\ exitCode' = 1
             /\ pc' = "exited"
             /\ UNCHANGED <<content, success>>
        ELSE /\ Apply(start)
             /\ fsAccess' = fsAccess \o <<"existsSync skillPath", "existsSync skillMdPath",
                                          "readFileSync skillMdPath">>
             /\ content' = fs.text
             /\ pc' = "validateFrontmatter"
             /\ UNCHANGED <<stderr, exitCode, success>>
  /\ UNCHANGED <<wizard, finished, argv, fs, validator>>

\* line 41
ValidateFrontmatter ==
  /\ pc = "validateFrontmatter"
  /\ Apply(validateFrontmatter(content))
  /\ pc' = "validateFileStructure"
  /\ UNCHANGED <<wizard, finished, argv, fs, validator, content, stderr, fsAccess, success, exitCode>>

\* line 44
ValidateFileStructure ==
  /\ pc = "validateFileStructure"
  /\ Apply(validateFileStructure(content))
  /\ pc' = "validateContent"
  /\ UNCHANGED <<wizard, finished, argv, fs, validator, content, stderr, fsAccess, success, exitCode>>

\* line 47
ValidateContent ==
  /\ pc = "validateContent"
  /\ Apply(validateContent(content))
  /\ pc' = "validateReferences"
  /\ UNCHANGED <<wizard, finished, argv, fs, validator, content, stderr, fsAccess, success, exitCode>>

\* line 50
ValidateReferences ==
  /\ pc = "validateReferences"
  /\ Apply(validateReferences(content, fs.files))
  /\ fsAccess' = fsAccess \o [i \in 1..Len(References(content)) |-> "existsSync refPath"]
  /\ pc' = "report"
  /\ UNCHANGED <<wizard, finished, argv, fs, validator, content, stderr, success, exitCode>>

\* line 52
Report ==
  /\ pc = "report"
  /\ ReturnReport(Nothing)
  /\ UNCHANGED <<wizard, finished, argv, fs, validator, content, stderr, fsAccess, exitCode>>

\* line 293: process.exit(success ? 0 : 1)
Exit ==
  /\ pc = "exit"
  /\ exitCode' = IF success = <<TRUE>> THEN 0 ELSE 1
  /\ pc' = "exited"
  /\ UNCHANGED <<wizard, finished, argv, fs, validator, content, errors, warnings, stdout, stderr,
                 calls, fsAccess, success>>

Next ==
  \/ Main
  \/ Validate
  \/ ValidateFrontmatter
  \/ ValidateFileStructure
  \/ ValidateContent
  \/ ValidateReferences
  \/ Report
  \/ Exit

Spec == Init /\ [][Next]_vars

\* the program run on the packages that vary the name
InitNames == InitWith({[given |-> TRUE, value |-> Root]}, PackagesOf(NameDocuments))
SpecNames == InitNames /\ [][Next]_vars

\* the program run on the packages that vary the description
InitDescriptions ==
  InitWith({[given |-> TRUE, value |-> Root]}, PackagesOf(DescriptionDocuments))
SpecDescriptions == InitDescriptions /\ [][Next]_vars

(***************************************************************************)
(* What a run shows                                                        *)
(***************************************************************************)
HasError(text) == \E i \in 1..Len(errors) : errors[i][1] = text
HasWarning(text) == \E i \in 1..Len(warnings) : warnings[i][1] = text
CountErrors(text) == Cardinality({i \in 1..Len(errors) : errors[i][1] = text})
CountCalls(method) == Cardinality({i \in 1..Len(calls) : calls[i] = method})
Printed(text) == \E i \in 1..Len(stdout) : stdout[i][1] = text

\* validate() has returned
Returned == success # NotReturned

(***************************************************************************)
(* C1  Verdict law: whenever validate() (that is, report()) has returned,  *)
(* the value returned is true if and only if this.errors is empty, however *)
(* many warnings there are.                                                *)
(***************************************************************************)
C1_VerdictLaw == Returned => (success = <<TRUE>> <=> Len(errors) = 0)

\* a run that returned true with warnings
C1_Witness == success = <<TRUE>> /\ Len(warnings) > 0

(***************************************************************************)
(* C2  Exit mapping, as claimed: a process started with a package path     *)
(* exits with 0 exactly when no Error was recorded and with 1 exactly when *)
(* one or more Errors were recorded.                                       *)
(***************************************************************************)
C2_ExitMapping ==
  (pc = "exited" /\ argv.given /\ argv.value # <<>>) =>
    /\ exitCode = 0 <=> Len(errors) = 0
    /\ exitCode = 1 <=> Len(errors) > 0

(***************************************************************************)
(* C3  Usage error: when the path argument is absent no validator is ever  *)
(* constructed, the file system is never accessed, nothing is validated or *)
(* reported, and the process exits with a status other than 0.             *)
(***************************************************************************)
C3_UsageError ==
  ~argv.given =>
    /\ pc \in {"main", "exited"}
    /\ ~validator.constructed
    /\ fsAccess = <<>>
    /\ calls = <<>>
    /\ stdout = <<>>
    /\ (pc = "exited" => exitCode # 0)

\* the process has exited on a missing argument
C3_Witness == ~argv.given /\ pc = "exited" /\ exitCode = 1 /\ Len(stderr) > 0

(***************************************************************************)
(* C4  Missing package: when the directory does not exist, or holds no     *)
(* SKILL.md, validate() records exactly one Error and no Warning, calls    *)
(* none of validateFrontmatter, validateFileStructure, validateContent and *)
(* validateReferences, renders the report and returns false.               *)
(***************************************************************************)
C4_MissingPackage ==
  (validator.constructed /\ pc # "validate" /\ (~fs.dir \/ fs.skillMd = "missing")) =>
    /\ Len(errors) = 1
    /\ errors[1][1] = (IF fs.dir THEN "SKILL.md file is required but not found"
                       ELSE "Skill directory does not exist")
    /\ Len(warnings) = 0
    /\ calls = <<"validate", "report">>
    /\ stdout[Len(stdout)] = <<"Validation failed">>
    /\ success = <<FALSE>>

\* a run on a directory without SKILL.md has ended
C4_Witness ==
  pc = "exited" /\ fs.dir /\ fs.skillMd = "missing" /\ success = <<FALSE>> /\ exitCode = 1

(***************************************************************************)
(* C5  Missing header, as claimed: when the primary document has no pair   *)
(* of delimiter lines the run records the single missing-header Error and  *)
(* stops: the size, path-separator and time-anchoring checks and the       *)
(* reference resolver do not run, and the report holds that one            *)
(* diagnostic only.                                                        *)
(***************************************************************************)
C5_MissingHeaderStops ==
  (pc = "exited" /\ fs.skillMd = "file" /\ validator.constructed
     /\ Cardinality(DelimiterLines(fs.text)) < 2) =>
    /\ errors = << <<"YAML frontmatter is required but not found">> >>
    /\ warnings = <<>>
    /\ CountCalls("validateFileStructure") = 0
    /\ CountCalls("validateContent") = 0
    /\ CountCalls("validateReferences") = 0

(***************************************************************************)
(* C6  Report everything at once: in a run that found a header block,      *)
(* every check has run exactly once when validate() returns.  The name     *)
(* check and the description check each either report the missing line or  *)
(* validate the value, the allowed-tools check runs exactly when the line  *)
(* is there, and the body checks and the reference check contribute their  *)
(* findings whatever the header checks found.                              *)
(***************************************************************************)
HeaderFound == CountCalls("validateFrontmatter") = 1
               /\ ~HasError("YAML frontmatter is required but not found")

Header == frontmatterRegex(fs.text).text

C6_ReportEverything ==
  (Returned /\ HeaderFound) =>
    /\ CountCalls("validateFileStructure") = 1
    /\ CountCalls("validateContent") = 1
    /\ CountCalls("validateReferences") = 1
    /\ CountCalls("report") = 1
    /\ CountCalls("validateName") + CountErrors("name field is required in frontmatter") = 1
    /\ CountCalls("validateDescription")
         + CountErrors("description field is required in frontmatter") = 1
    /\ ~nameMatch(Header).found => HasError("name field is required in frontmatter")
    /\ ~descMatch(Header).found => HasError("description field is required in frontmatter")
    /\ CountCalls("validateAllowedTools") = (IF allowedToolsMatch(Header).found THEN 1 ELSE 0)
    /\ Printed("SKILL.md length") \/ HasWarning("SKILL.md is too long")
    /\ Printed("No Windows-style paths found") \/ HasError("Windows-style paths found")
    /\ backslashPattern(fs.text) => HasError("Windows-style paths found")
    /\ CountErrors("Referenced file does not exist")
         = Cardinality({i \in 1..Len(References(fs.text)) :
                          PathJoin(References(fs.text)[i]) \notin fs.files})

\* both required lines are missing, the allowed-tools line is there and the
\* body holds a backslash path: all of it is in the one report
C6_Witness ==
  /\ pc = "exited"
  /\ HasError("name field is required in frontmatter")
  /\ HasError("description field is required in frontmatter")
  /\ HasError("Windows-style paths found")
  /\ CountCalls("validateAllowedTools") = 1

(***************************************************************************)
(* What the claims about the name mean by a well-formed identifier         *)
(***************************************************************************)
IdentifierChars ==
  {"a","b","c","d","e","f","g","h","i","j","k","l","m","n","o","p","q","r","s","t",
   "u","v","w","x","y","z","0","1","2","3","4","5","6","7","8","9","-"}

HasReservedWord(n) ==
  \/ ContainsCI(n, <<"a","n","t","h","r","o","p","i","c">>)
  \/ ContainsCI(n, <<"c","l","a","u","d","e">>)

NameErrorTexts ==
  { "name is too long",
    "name must contain only lowercase letters, numbers, and hyphens",
    "name cannot contain reserved words",
    "name cannot contain XML tags" }

\* the names validateName was called with (it prints its argument)
ValidatedNames == {stdout[i][2] : i \in {j \in 1..Len(stdout) : stdout[j][1] = "name field valid"}}

NameErrorCount == Cardinality({i \in 1..Len(errors) : errors[i][1] \in NameErrorTexts})

(***************************************************************************)
(* C7  Identifier acceptance: for a name of 1 to 64 characters, all of     *)
(* them in [a-z0-9-], that contains neither "anthropic" nor "claude" in    *)
(* any letter case, validateName adds no Error.                            *)
(***************************************************************************)
C7_IdentifierAccepted ==
  \A n \in ValidatedNames :
    (/\ Len(n) \in 1..64
     /\ \A i \in 1..Len(n) : n[i] \in IdentifierChars
     /\ ~HasReservedWord(n))
    => NameErrorCount = 0

\* a well-formed name of exactly 64 characters went through without an Error
C7_Witness ==
  /\ pc = "exited"
  /\ \E n \in ValidatedNames : Len(n) = 64 /\ \A i \in 1..Len(n) : n[i] \in IdentifierChars
  /\ errors = <<>>
  /\ exitCode = 0

(***************************************************************************)
(* C8  Identifier rejection.  The constraints a name can violate, and how  *)
(* many of them it violates.                                               *)
(***************************************************************************)
Bit(b) == IF b THEN 1 ELSE 0

IsTooLong(n) == Len(n) > 64
HasForeignChar(n) == \E i \in 1..Len(n) : n[i] \notin IdentifierChars
HasAngleBracket(n) == \E i \in 1..Len(n) : n[i] \in {"<", ">"}

\* C8 as claimed: for every name validateName is called with, the number of
\* Errors it adds is the number of violated constraints among: longer than
\* 64, a character outside [a-z0-9-], a reserved word, an angle bracket.
C8_OneErrorPerConstraint ==
  \A n \in ValidatedNames :
    NameErrorCount = Bit(IsTooLong(n)) + Bit(HasForeignChar(n))
                       + Bit(HasReservedWord(n)) + Bit(HasAngleBracket(n))

\* C8 amended: the same, with the character-class Error also added for the
\* empty name: each of the four Errors is there exactly when its constraint
\* is violated (the character-class one: when the name is empty or has a
\* character outside [a-z0-9-]), so the number of Errors is the number of
\* violated constraints; and a run that added a name Error exits with 1.
C8_Amended ==
  \A n \in ValidatedNames :
    /\ HasError("name is too long") <=> IsTooLong(n)
    /\ HasError("name must contain only lowercase letters, numbers, and hyphens")
         <=> (Len(n) = 0 \/ HasForeignChar(n))
    /\ HasError("name cannot contain reserved words") <=> HasReservedWord(n)
    /\ HasError("name cannot contain XML tags") <=> HasAngleBracket(n)
    /\ NameErrorCount = Bit(IsTooLong(n)) + Bit(Len(n) = 0 \/ HasForeignChar(n))
                          + Bit(HasReservedWord(n)) + Bit(HasAngleBracket(n))
    /\ (pc = "exited" /\ NameErrorCount > 0) => exitCode = 1

\* a name that violates all four constraints got four Errors and the run
\* exited with 1
C8_Witness ==
  /\ pc = "exited"
  /\ \E n \in ValidatedNames :
       IsTooLong(n) /\ HasForeignChar(n) /\ HasReservedWord(n) /\ HasAngleBracket(n)
  /\ NameErrorCount = 4
  /\ exitCode = 1

(***************************************************************************)
(* C9  Summary hard constraints: validateDescription adds the empty Error  *)
(* exactly for the empty description, the length Error exactly for more    *)
(* than 1024 characters and the markup Error exactly when there is a '<'   *)
(* or '>'; a description of 1200 characters with no other defect gives     *)
(* exactly one Error, the length one, and the run exits with 1.            *)
(***************************************************************************)
\* the description validateDescription was called with
ValidatedDescription == Trim(descMatch(Header).text)

C9_DescriptionConstraints ==
  CountCalls("validateDescription") = 1 =>
    LET d == ValidatedDescription
    IN /\ HasError("description cannot be empty") <=> Len(d) = 0
       /\ HasError("description is too long") <=> Len(d) > 1024
       /\ HasError("description cannot contain XML tags") <=> HasAngleBracket(d)
       /\ (Len(d) > 1024 /\ ~HasAngleBracket(d)) =>
            /\ Len(errors) = 1
            /\ errors[1] = <<"description is too long", Len(d)>>
            /\ pc = "exited" => exitCode = 1

\* the run on a description of 1200 characters with no other defect has
\* exited with 1 on the one length Error
C9_Witness ==
  /\ pc = "exited"
  /\ CountCalls("validateDescription") = 1
  /\ Len(ValidatedDescription) = 1200
  /\ errors = << <<"description is too long", 1200>> >>
  /\ warnings = <<>>
  /\ exitCode = 1

(***************************************************************************)
(* C10  Style findings never block: the six style rules add Warnings and   *)
(* never an Error, and a run whose findings all come from them returns     *)
(* true, is reported as passed with warnings, and exits with 0.            *)
(***************************************************************************)
StyleTexts ==
  { "name is too vague",
    "description should use third person",
    "description should include Use when",
    "SKILL.md is too long",
    "Time-sensitive information detected",
    "Unknown tool in allowed-tools" }

C10_StyleNeverBlocks ==
  /\ \A i \in 1..Len(errors) : errors[i][1] \notin StyleTexts
  /\ \A i \in 1..Len(warnings) : warnings[i][1] \in StyleTexts
  /\ \A n \in ValidatedNames :
       n \in { <<"h","e","l","p","e","r">>, <<"u","t","i","l","s">>,
               <<"t","o","o","l","s">>, <<"s","k","i","l","l">> }
       => HasWarning("name is too vague")
  /\ (Returned /\ Len(warnings) > 0
        /\ \A i \in 1..Len(errors) : errors[i][1] \in StyleTexts) =>
       /\ success = <<TRUE>>
       /\ stdout[Len(stdout)] = <<"Validation passed with warnings">>
       /\ pc = "exited" => exitCode = 0

\* a run whose findings are a vague name, a second-person description
\* without "use when", an unknown tool and a time-anchored phrase has passed
C10_Witness ==
  /\ pc = "exited"
  /\ errors = <<>>
  /\ HasWarning("name is too vague")
  /\ HasWarning("description should use third person")
  /\ HasWarning("description should include Use when")
  /\ HasWarning("Unknown tool in allowed-tools")
  /\ HasWarning("Time-sensitive information detected")
  /\ exitCode = 0

(***************************************************************************)
(* Packages that differ only in the allowed-tools line: its value is put   *)
(* together from capability names, other words and separators, and the     *)
(* line is the first or the last line of the header, or is not there.      *)
(***************************************************************************)
MaxToolParts == 3

ToolsPrefix == <<"a","l","l","o","w","e","d","-","t","o","o","l","s",":">>

ToolPieces ==
  { <<"R","e","a","d">>, <<"W","e","b","S","e","a","r","c","h">>,
    <<"F","o","o">>, <<"b","a","s","h">>, <<",">>, <<" ">>, <<TAB>> }

ToolInputs == Concatenations(ToolPieces, MaxToolParts)

ToolDocuments ==
  { Delimiter \o GoodNameLine \o GoodDescriptionLine
      \o ToolsPrefix \o <<" ">> \o t \o <<NL>> \o Delimiter \o Title : t \in ToolInputs }
  \cup { Delimiter \o ToolsPrefix \o t \o <<NL>> \o GoodNameLine \o GoodDescriptionLine
           \o Delimiter \o Title : t \in ToolInputs }
  \cup { Delimiter \o GoodNameLine \o GoodDescriptionLine \o Delimiter \o Title }

\* the program run on the packages that vary the allowed-tools line
SpecTools ==
  InitWith({[given |-> TRUE, value |-> Root]}, PackagesOf(ToolDocuments)) /\ [][Next]_vars

(***************************************************************************)
(* What the claims mean by the lines of a document and by the tokens of a  *)
(* capability list                                                         *)
(***************************************************************************)
\* the positions at which the lines of `text` start
LineStarts(text) == {i \in 1..Len(text) : i = 1 \/ text[i - 1] = NL}

\* the line that starts at position i, without its line terminator
LineAt(text, i) ==
  LET ends == {j \in i..Len(text) : text[j] = NL}
  IN SubSeq(text, i, IF ends = {} THEN Len(text) ELSE Min(ends) - 1)

\* the positions of the header's lines that start with `allowed-tools:`
ToolsLines(text) ==
  LET open == {i \in LineStarts(text) : LineAt(text, i) = <<"-","-","-">>}
  IN IF Cardinality(open) < 2 THEN {}
     ELSE LET first == Min(open)
              second == Min(open \ {first})
          IN {i \in LineStarts(text) :
                /\ first < i /\ i < second
                /\ Len(LineAt(text, i)) >= Len(ToolsPrefix)
                /\ SubSeq(LineAt(text, i), 1, Len(ToolsPrefix)) = ToolsPrefix}

\* the value of the header's first allowed-tools line: what follows the colon
ToolsValue(text) ==
  LET line == LineAt(text, Min(ToolsLines(text)))
  IN SubSeq(line, Len(ToolsPrefix) + 1, Len(line))

KnownCapabilities ==
  { <<"R","e","a","d">>, <<"W","r","i","t","e">>, <<"E","d","i","t">>,
    <<"G","l","o","b">>, <<"G","r","e","p">>, <<"B","a","s","h">>,
    <<"T","a","s","k">>, <<"W","e","b","F","e","t","c","h">>,
    <<"W","e","b","S","e","a","r","c","h">> }

TokenSeparators == {",", " ", TAB, NL}

\* the positions at which the tokens of a capability list start
TokenStarts(v) ==
  {i \in 1..Len(v) : v[i] \notin TokenSeparators /\ (i = 1 \/ v[i - 1] \in TokenSeparators)}

\* the token that starts at position i
TokenAt(v, i) ==
  LET stops == {j \in i..Len(v) : v[j] \in TokenSeparators}
  IN SubSeq(v, i, IF stops = {} THEN Len(v) ELSE Min(stops) - 1)

\* how many tokens of the list are not known capability names, repeats counted
UnknownTokenCount(v) ==
  Cardinality({i \in TokenStarts(v) : TokenAt(v, i) \notin KnownCapabilities})

CountWarnings(text) == Cardinality({i \in 1..Len(warnings) : warnings[i][1] = text})

(***************************************************************************)
(* C11  Capability list, as claimed: once the header checks have run on a  *)
(* header with an allowed-tools line, the number of unknown-tool Warnings  *)
(* is the number of tokens of that line's value (split on commas and white *)
(* space) that are not capability names, repeats counted; with no such     *)
(* line the check has added no Warning and has not run.                    *)
(***************************************************************************)
C11_CapabilityList ==
  (HeaderFound /\ fs.skillMd = "file") =>
    IF ToolsLines(fs.text) # {}
    THEN CountWarnings("Unknown tool in allowed-tools")
           = UnknownTokenCount(ToolsValue(fs.text))
    ELSE /\ CountWarnings("Unknown tool in allowed-tools") = 0
         /\ CountCalls("validateAllowedTools") = 0

\* the same for the lines that carry a value: the part of the claim the
\* program keeps
C11_ValueOnLine ==
  (HeaderFound /\ fs.skillMd = "file" /\ ToolsLines(fs.text) # {}
     /\ TokenStarts(ToolsValue(fs.text)) # {}) =>
    CountWarnings("Unknown tool in allowed-tools") = UnknownTokenCount(ToolsValue(fs.text))

(***************************************************************************)
(* Packages that differ in the number of body lines, around the limit, and *)
(* in the number of header lines                                           *)
(***************************************************************************)
SizeMargin == 6

SizeDocuments ==
  { Delimiter \o GoodNameLine \o GoodDescriptionLine \o t \o Delimiter \o Repeat(NL, n) :
      t \in ToolLines,
      n \in (BodyLineLimit - SizeMargin)..(BodyLineLimit + SizeMargin) }

\* the program run on the packages that vary the size of the body
SpecSizes ==
  InitWith({[given |-> TRUE, value |-> Root]}, PackagesOf(SizeDocuments)) /\ [][Next]_vars

\* the number of lines after the closing header delimiter, counted as
\* split('\n') counts them: the text after the last line terminator is a
\* line even when it is empty
BodyLines(text) ==
  LET marks == {i \in LineStarts(text) : LineAt(text, i) = <<"-","-","-">>}
      closing == Min(marks \ {Min(marks)})
  IN Cardinality({i \in 1..Len(text) : i > closing /\ text[i] = NL})

(***************************************************************************)
(* C12  Size check, as claimed: once the size check has run on a document  *)
(* with a header, the oversize Warning is there exactly when the number of *)
(* lines after the closing header delimiter is greater than 500; header    *)
(* lines and delimiter lines do not count.                                 *)
(***************************************************************************)
C12_BodyLinesOnly ==
  (CountCalls("validateFileStructure") = 1 /\ HeaderFound) =>
    (HasWarning("SKILL.md is too long") <=> BodyLines(fs.text) > 500)

(***************************************************************************)
(* Packages that differ in where backslashes stand: the body is put        *)
(* together from backslashes, backticks, letters and white space, or holds *)
(* a Windows path, and the description has a backslash or has none.        *)
(***************************************************************************)
MaxPathParts == 3

PathPieces == { <<BS>>, <<BT>>, <<"n">>, <<"v">>, <<" ">>, <<NL>> }

PathDocuments ==
  { Delimiter \o GoodNameLine \o d \o Delimiter \o b :
      d \in { GoodDescriptionLine,
              DescriptionPrefix \o <<"R","u","n","s"," ","a",BS,"b","."," ">> \o UseWhenText
                \o <<"Y",".",NL>> },
      b \in Concatenations(PathPieces, MaxPathParts)
              \cup { <<"R","u","n"," ","s","c","r","i","p","t","s",BS,"v","a","l","i","d","a","t","e",".","p","y",NL>>,
                     <<"W","r","i","t","e"," ",BS,"n",","," ","n","o","t"," ","C",":",BS,"d","i","r",NL>> } }

\* the program run on the packages that vary the backslashes
SpecPaths ==
  InitWith({[given |-> TRUE, value |-> Root]}, PackagesOf(PathDocuments)) /\ [][Next]_vars

\* the body of a document with a header: the text after the closing
\* delimiter line
Body(text) ==
  LET marks == {i \in LineStarts(text) : LineAt(text, i) = <<"-","-","-">>}
      closing == Min(marks \ {Min(marks)})
  IN SubSeq(text, closing + 4, Len(text))

\* what may follow a backslash in an escape sequence: n, t, r or white space
EscapeChars == {"n", "t", "r", " ", TAB, NL}

\* a backslash that is not preceded by a backtick and not followed by an
\* escape character
OffendingBackslash(b) ==
  \E i \in 1..Len(b) :
    /\ b[i] = BS
    /\ (i = 1 \/ b[i - 1] # BT)
    /\ ~(i < Len(b) /\ b[i + 1] \in EscapeChars)

(***************************************************************************)
(* C13  Path-separator detection, as claimed: once the content check has   *)
(* run on a document with a header, the Windows-path Error is there        *)
(* exactly when the body holds a backslash that is not preceded by a       *)
(* backtick and not followed by an escape character.                       *)
(***************************************************************************)
C13_PathSeparator ==
  (CountCalls("validateContent") = 1 /\ HeaderFound) =>
    (HasError("Windows-style paths found") <=> OffendingBackslash(Body(fs.text)))

\* the part of the claim the program keeps: a body with `scripts\validate.py`
\* is flagged
C13_ExampleFlagged ==
  (CountCalls("validateContent") = 1 /\ HeaderFound
     /\ \E i \in 1..Len(fs.text) : MatchAt(fs.text, i, <<"s",BS,"v","a","l","i","d","a","t","e">>))
    => HasError("Windows-style paths found")

(***************************************************************************)
(* Packages that differ in the links of the body and in the files that     *)
(* exist beside SKILL.md                                                   *)
(***************************************************************************)
MaxLinks == 3

\* a line of the body with one markdown link to `target`
LinkLine(target) == <<"S","e","e"," ","[","t","e","x","t","]","(">> \o target \o <<")",".",NL>>

LinkTargets ==
  { <<"a",".","m","d">>, <<"d","o","c","s","/","b",".","m","d">>,
    <<"h","t","t","p","s",":","/","/","x",".","i","o">>,
    <<"h","t","t","p",":","/","/","x",".","i","o","/","a",".","m","d">>,
    <<"#","t","o","p">> }

\* the files a package may hold beside SKILL.md
LinkFiles ==
  { [up |-> 0, down |-> << <<"a",".","m","d">> >>],
    [up |-> 0, down |-> << <<"d","o","c","s">>, <<"b",".","m","d">> >>] }

LinkPackages ==
  { [dir |-> TRUE, skillMd |-> "file", files |-> f,
     text |-> Delimiter \o GoodNameLine \o GoodDescriptionLine \o Delimiter \o Title \o b] :
      f \in SUBSET LinkFiles,
      b \in Concatenations({LinkLine(t) : t \in LinkTargets}, MaxLinks) }

\* the program run on the packages that vary the links
SpecLinks == InitWith({[given |-> TRUE, value |-> Root]}, LinkPackages) /\ [][Next]_vars

(***************************************************************************)
(* What the claims mean by the links of a text and by a file that exists   *)
(* under the package root                                                  *)
(***************************************************************************)
\* the targets X of the links [text](X) of b, in the order of the text
RECURSIVE TargetsFrom(_, _)
TargetsFrom(b, from) ==
  LET opens == {i \in from..(Len(b) - 1) : b[i] = "]" /\ b[i + 1] = "("}
  IN IF opens = {} THEN <<>>
     ELSE LET i == Min(opens)
              close == Min({j \in (i + 2)..Len(b) : b[j] = ")"})
          IN <<SubSeq(b, i + 2, close - 1)>> \o TargetsFrom(b, close + 1)

\* the segments of a path, joined with '/'
RECURSIVE JoinSlash(_)
JoinSlash(segments) ==
  IF Len(segments) = 1 THEN segments[1]
  ELSE segments[1] \o <<"/">> \o JoinSlash(Tail(segments))

\* X names a file that exists under the package root
ExistsUnderRoot(x) == \E f \in fs.files : f.up = 0 /\ JoinSlash(f.down) = x

IsUrlOrAnchor(x) ==
  \/ Len(x) >= 1 /\ x[1] = "#"
  \/ Len(x) >= 7 /\ SubSeq(x, 1, 7) = <<"h","t","t","p",":","/","/">>
  \/ Len(x) >= 8 /\ SubSeq(x, 1, 8) = <<"h","t","t","p","s",":","/","/">>

\* the Errors of the reference resolver, in the order they were added
ResolverErrors == SelectSeq(errors, LAMBDA e : e[1] = "Referenced file does not exist")

\* one Error naming X for every link of the body whose target X is a
\* relative path that names no existing file
ExpectedResolverErrors ==
  LET missing == SelectSeq(TargetsFrom(Body(fs.text), 1),
                           LAMBDA x : ~IsUrlOrAnchor(x) /\ ~ExistsUnderRoot(x))
  IN [i \in 1..Len(missing) |-> <<"Referenced file does not exist", missing[i]>>]

(***************************************************************************)
(* C14  Reference resolution: once the resolver has run, its Errors are    *)
(* exactly one Error naming X for each link [text](X) of the body whose    *)
(* target is a relative path that names no file under the package root;    *)
(* links to external URLs, links that start with '#' and links to existing *)
(* files add nothing, and the resolver adds no Warning.                    *)
(***************************************************************************)
C14_ReferenceResolution ==
  (CountCalls("validateReferences") = 1 /\ HeaderFound) =>
    /\ ResolverErrors = ExpectedResolverErrors
    /\ \A i \in 1..Len(warnings) : warnings[i][1] # "Referenced file does not exist"

\* the body links to an anchor, to a file that exists and to one that does
\* not: the report holds one Error, naming the missing file, and the run
\* exits with 1
C14_Witness ==
  /\ pc = "exited"
  /\ TargetsFrom(Body(fs.text), 1)
       = << <<"#","t","o","p">>, <<"d","o","c","s","/","b",".","m","d">>, <<"a",".","m","d">> >>
  /\ ExistsUnderRoot(<<"d","o","c","s","/","b",".","m","d">>)
  /\ errors = << <<"Referenced file does not exist", <<"a",".","m","d">>>> >>
  /\ exitCode = 1

\* a run whose body links only to files that exist has no diagnostic at all
C14_AllExist ==
  (pc = "exited" /\ fs.files = LinkFiles
     /\ \A i \in 1..Len(TargetsFrom(Body(fs.text), 1)) :
          IsUrlOrAnchor(TargetsFrom(Body(fs.text), 1)[i])
          \/ ExistsUnderRoot(TargetsFrom(Body(fs.text), 1)[i]))
    => errors = <<>> /\ warnings = <<>> /\ exitCode = 0

(***************************************************************************)
(* The component a diagnostic comes from, by its text, in the order of the *)
(* pipeline: 0 package structure, 1 header extraction, 2 name, 3           *)
(* description, 4 allowed-tools, 5 size, 6 path separator, 7 time          *)
(* anchoring, 8 reference resolution                                       *)
(***************************************************************************)
Component(text) ==
  CASE text \in { "Skill directory does not exist",
                  "SKILL.md file is required but not found" } -> 0
    [] text = "YAML frontmatter is required but not found" -> 1
    [] text \in NameErrorTexts
                  \cup { "name field is required in frontmatter", "name is too vague" } -> 2
    [] text \in { "description field is required in frontmatter",
                  "description is too long", "description cannot be empty",
                  "description cannot contain XML tags",
                  "description should use third person",
                  "description should include Use when" } -> 3
    [] text = "Unknown tool in allowed-tools" -> 4
    [] text = "SKILL.md is too long" -> 5
    [] text = "Windows-style paths found" -> 6
    [] text = "Time-sensitive information detected" -> 7
    [] text = "Referenced file does not exist" -> 8

InComponentOrder(list) ==
  \A i, j \in 1..Len(list) : i < j => Component(list[i][1]) <= Component(list[j][1])

(***************************************************************************)
(* C15  Diagnostic ordering: at every moment of a run, and so in every     *)
(* report, the Errors are in the order of the components that produced     *)
(* them (header extraction, name, description, allowed-tools, size, path   *)
(* separator, time anchoring, reference resolution), and so are the        *)
(* Warnings, wherever in the text the findings are; the numbered lists of  *)
(* the report are the two lists in that order.                             *)
(***************************************************************************)
C15_ComponentOrder ==
  /\ InComponentOrder(errors)
  /\ InComponentOrder(warnings)
  /\ Returned =>
       /\ SelectSeq(stdout, LAMBDA l : l[1] = "item")
            = [i \in 1..(Len(errors) + Len(warnings)) |->
                 IF i <= Len(errors) THEN <<"item", i, errors[i]>>
                 ELSE <<"item", i - Len(errors), warnings[i - Len(errors)]>>]

\* a report with Errors of the name, the description, the path-separator
\* check and the resolver and Warnings of the allowed-tools and the
\* time-anchoring check, on a body that has the link before the date and the
\* date before the backslash
C15_Witness ==
  /\ pc = "exited"
  /\ {Component(errors[i][1]) : i \in 1..Len(errors)} = {2, 3, 6, 8}
  /\ {Component(warnings[i][1]) : i \in 1..Len(warnings)} = {4, 7}

(***************************************************************************)
(* What report() printed: the lines after the banner                       *)
(***************************************************************************)
ReportText ==
  LET banner == Min({i \in 1..Len(stdout) : stdout[i] = <<"VALIDATION RESULTS">>})
  IN SubSeq(stdout, banner + 1, Len(stdout))

\* a list of diagnostics as the report shows it, numbered from 1
NumberedFrom1(list) == <<>> \o [i \in 1..Len(list) |-> <<"item", i, list[i]>>]

(***************************************************************************)
(* C16  Rendering: once report() has returned, what it printed is one of   *)
(* three texts.  With no Error and no Warning: the success line and no     *)
(* list.  With no Error and N > 0 Warnings: the warning list numbered 1..N *)
(* and the passed-with-warnings line.  With M > 0 Errors: the error list   *)
(* numbered 1..M, then the warning list if there are Warnings, then the    *)
(* failure line.  The success line is printed exactly when there is no     *)
(* diagnostic.                                                             *)
(***************************************************************************)
C16_Rendering ==
  Returned =>
    /\ ReportText =
         IF Len(errors) = 0 /\ Len(warnings) = 0
         THEN << <<"All validations passed!">>, <<"Skill is ready to use">> >>
         ELSE IF Len(errors) = 0
         THEN << <<"Found warning(s)", Len(warnings)>> >> \o NumberedFrom1(warnings)
                \o << <<"Validation passed with warnings">> >>
         ELSE IF Len(warnings) = 0
         THEN << <<"Found error(s)", Len(errors)>> >> \o NumberedFrom1(errors)
                \o << <<"Validation failed">> >>
         ELSE << <<"Found error(s)", Len(errors)>> >> \o NumberedFrom1(errors)
                \o << <<"Found warning(s)", Len(warnings)>> >> \o NumberedFrom1(warnings)
                \o << <<"Validation failed">> >>
    /\ Printed("All validations passed!") <=> (Len(errors) = 0 /\ Len(warnings) = 0)
    /\ Cardinality({i \in 1..Len(stdout) : stdout[i] = <<"VALIDATION RESULTS">>}) = 1

\* a failed run with two Errors and two Warnings: its report has the two
\* numbered lists, the Errors first, and ends with the failure line
C16_Witness ==
  /\ pc = "exited"
  /\ Len(errors) = 2 /\ Len(warnings) = 2
  /\ ReportText[1] = <<"Found error(s)", 2>>
  /\ ReportText[4] = <<"Found warning(s)", 2>>
  /\ ReportText[7] = <<"Validation failed">>
  /\ exitCode = 1

\* the other two outcomes occur as well
C16_CleanRun == pc = "exited" /\ Printed("All validations passed!") /\ exitCode = 0
C16_WarningsOnlyRun ==
  pc = "exited" /\ Len(errors) = 0 /\ Len(warnings) = 3
    /\ ReportText[5] = <<"Validation passed with warnings">>

(***************************************************************************)
(* The command run more than once.  Every run is a process of its own: it  *)
(* starts at the main block with an empty console and builds its own       *)
(* SkillValidator.  `finished` keeps what the earlier runs came to.        *)
(***************************************************************************)
MaxRuns == 2

\* what the run that has just ended came to, and the package it ran on
Outcome ==
  [fs |-> fs, errors |-> errors, warnings |-> warnings, stdout |-> stdout,
   stderr |-> stderr, success |-> success, exitCode |-> exitCode]

\* after the process has exited the command is started again, on the
\* package `package`; `console` is what the new process finds on its output
StartOver(package, console) ==
  /\ pc = "exited"
  /\ Len(finished) < MaxRuns - 1
  /\ finished' = Append(finished, Outcome)
  /\ fs' = package
  /\ pc' = "main"
  /\ validator' = NoValidator
  /\ content' = NoText
  /\ errors' = <<>>
  /\ warnings' = <<>>
  /\ stdout' = console
  /\ stderr' = <<>>
  /\ calls' = <<>>
  /\ fsAccess' = <<>>
  /\ success' = NotReturned
  /\ exitCode' = Running
  /\ UNCHANGED <<argv, wizard>>

\* the second run writing after the output of the first
RunAgain_SharedConsole == StartOver(fs, stdout)

\* the same command on the same, unchanged package
RunAgain == StartOver(fs, <<>>)

NextTwice ==
  \/ Next
  \/ RunAgain

SpecTwice == Init /\ [][NextTwice]_vars

InitLibrary ==
  /\ argv = [given |-> FALSE, value |-> <<>>]
  /\ fs \in {p \in Packages : p.skillMd # "unreadable"}
  /\ pc = "validate"
  /\ validator = [constructed |-> TRUE, skillPath |-> Root]
  /\ content = NoText
  /\ errors = <<>>
  /\ warnings = <<>>
  /\ stdout = <<>>
  /\ stderr = <<>>
  /\ calls = <<>>
  /\ fsAccess = <<>>
  /\ success = NotReturned
  /\ exitCode = Running
  /\ finished = <<>>
  /\ wizard = NoWizard

\* the caller calls validate() again on the same object: nothing of the
\* object is reset
ValidateAgain ==
  /\ pc = "exit"
  /\ Len(finished) < MaxRuns - 1
  /\ finished' = Append(finished, Outcome)
  /\ pc' = "validate"
  /\ success' = NotReturned
  /\ UNCHANGED <<argv, fs, validator, content, errors, warnings, stdout, stderr,
                 calls, fsAccess, exitCode, wizard>>

NextLibrary ==
  \/ Validate
  \/ ValidateFrontmatter
  \/ ValidateFileStructure
  \/ ValidateContent
  \/ ValidateReferences
  \/ Report
  \/ ValidateAgain

SpecLibrary == InitLibrary /\ [][NextLibrary]_vars

(***************************************************************************)
(* C18  No state survives an invocation, as claimed: when validate() has   *)
(* returned for the second time on the same SkillValidator and the same    *)
(* package, the report has as many Errors and as many Warnings as the      *)
(* first time, and the verdict is the same.                                *)
(***************************************************************************)
C18_NothingSurvives ==
  (pc = "exit" /\ finished # <<>>) =>
    LET before == finished[Len(finished)]
    IN /\ Len(errors) = Len(before.errors)
       /\ Len(warnings) = Len(before.warnings)
       /\ success = before.success

\* what the program does instead: the second report holds the diagnostics
\* of the first call, followed by the same diagnostics again
C18_Accumulates ==
  (pc = "exit" /\ finished # <<>>) =>
    LET before == finished[Len(finished)]
    IN /\ errors = before.errors \o before.errors
       /\ warnings = before.warnings \o before.warnings

(***************************************************************************)
(* C20  Unreadable primary document, as claimed: when SKILL.md exists but  *)
(* cannot be read, the run that has ended recorded a single Error,         *)
(* rendered the report with the failure line, validate() returned false    *)
(* and no exception escaped it.                                            *)
(***************************************************************************)
C20_UnreadableHandled ==
  (pc = "exited" /\ validator.constructed /\ fs.skillMd = "unreadable") =>
    /\ Len(errors) = 1
    /\ CountCalls("report") = 1
    /\ Printed("Validation failed")
    /\ success = <<FALSE>>
    /\ exitCode = 1
    /\ stderr = <<>>

\* what the program does instead: the exception of readFileSync ends the
\* process with status 1 before any diagnostic is recorded or reported
C20_Escapes ==
  (pc = "exited" /\ validator.constructed /\ fs.skillMd = "unreadable") =>
    /\ errors = <<>>
    /\ CountCalls("report") = 0
    /\ success = NotReturned
    /\ stderr = << <<"Uncaught Error">> >>
    /\ exitCode = 1

(***************************************************************************)
(* A package made worse between two runs.  Each edit adds one violation    *)
(* and leaves everything else of the package as it is: the primary         *)
(* document is removed, the delimiter lines of its header are removed, an  *)
(* allowed-tools line with an unknown capability is put at the end of a    *)
(* header that has none, or a line that breaks a body rule or links to a   *)
(* missing file is put at the end of the body.                             *)
(***************************************************************************)
\* the lines that may be added to a body
BadLines ==
  { <<"R","u","n"," ","c",BS,"d",NL>>,
    <<"A","f","t","e","r"," ","2","0","2","5"," ","i","t"," ","c","h","a","n","g","e","s",".",NL>>,
    <<"S","e","e"," ","[","m","o","r","e","]","(","g","o","n","e",".","m","d",")",NL>> }

UnknownToolLine == ToolsPrefix \o <<" ","F","o","o",NL>>

Worse(p) ==
  IF p.skillMd # "file" THEN {}
  ELSE { [p EXCEPT !.skillMd = "missing", !.text = NoText] }
       \cup { [p EXCEPT !.text = @ \o line] : line \in BadLines }
       \cup (IF StartsWith(p.text, Delimiter)
             THEN LET \* the start of the line that closes the header
                      c == Min({i \in LineStarts(p.text) :
                                  i > 1 /\ LineAt(p.text, i) = <<"-","-","-">>})
                      header == SubSeq(p.text, 1, c - 1)
                      rest == SubSeq(p.text, c, Len(p.text))
                  IN { [p EXCEPT !.text = SubSeq(header, 5, Len(header))
                                            \o SubSeq(rest, 5, Len(rest))] }
                     \cup (IF ToolsLines(p.text) = {}
                           THEN { [p EXCEPT !.text = header \o UnknownToolLine \o rest] }
                           ELSE {})
             ELSE {})

\* the command is run again after one violation was added to the package
AddViolation == \E worse \in Worse(fs) : StartOver(worse, <<>>)

NextEdits ==
  \/ Next
  \/ AddViolation

\* the first run is on a package with a header and the plain body
SpecEdits ==
  /\ InitWith({[given |-> TRUE, value |-> Root]},
              PackagesOf({WithHeader(n, d, t, Title) :
                            n \in NameLines, d \in DescriptionLines, t \in ToolLines}))
  /\ [][NextEdits]_vars

(***************************************************************************)
(* C19  Monotonicity, as claimed: when the run on a package to which one   *)
(* violation was added has exited, its report has at least as many Errors  *)
(* and at least as many Warnings as the report of the run before, on the   *)
(* package without that violation.                                         *)
(***************************************************************************)
C19_Monotonicity ==
  (pc = "exited" /\ finished # <<>>) =>
    LET before == finished[Len(finished)]
    IN /\ Len(errors) >= Len(before.errors)
       /\ Len(warnings) >= Len(before.warnings)

\* the part the program keeps: a line added at the end of the body never
\* lowers a count
C19_BodyLineAdded ==
  (pc = "exited" /\ finished # <<>>) =>
    LET before == finished[Len(finished)]
    IN (\E line \in BadLines : fs.text = before.fs.text \o line) =>
         /\ Len(errors) >= Len(before.errors)
         /\ Len(warnings) >= Len(before.warnings)

\* the same for the Errors alone, without the documents whose description
\* line has no value, when an allowed-tools line was added
C19_ToolLineAdded ==
  (pc = "exited" /\ finished # <<>>) =>
    LET before == finished[Len(finished)]
    IN (/\ fs.skillMd = "file"
        /\ Len(fs.text) = Len(before.fs.text) + Len(UnknownToolLine)
        /\ ~\E i \in LineStarts(fs.text) :
               LineAt(fs.text, i) = SubSeq(DescriptionPrefix, 1, Len(DescriptionPrefix) - 1)
                                      \o <<" ">>) =>
         /\ Len(errors) >= Len(before.errors)
         /\ Len(warnings) >= Len(before.warnings)

(***************************************************************************)
(* tools/scaffold-skill.js: the wizard asks for a name, a description, a   *)
(* template and a location, and copies the template directory to           *)
(* <location>/<name>, putting the name and the description in the header   *)
(* of the copied SKILL.md.                                                 *)
(***************************************************************************)
\* the templates object: the directory each choice stands for
templates ==
  [c \in {"1", "2", "3", "4", "5", "6", "7", "8"} |->
     CASE c = "1" -> "basic-skill" [] c = "2" -> "analysis-skill"
       [] c = "3" -> "generation-skill" [] c = "4" -> "workflow-skill"
       [] c = "5" -> "tool-restricted-skill" [] c = "6" -> "multi-file-skill"
       [] c = "7" -> "script-based-skill" [] c = "8" -> "validation-skill"]

\* templates/<directory>/SKILL.md, up to its title line, for two of the
\* template directories that exist; basic-skill, workflow-skill and
\* script-based-skill do not exist
TemplateMd ==
  [t \in {"analysis-skill", "tool-restricted-skill"} |->
     IF t = "analysis-skill"
     THEN
    <<"-","-","-",NL,"n","a","m","e",":"," ","a","n","a","l","y","z","i","n","g","-","[",
    "d","o","m","a","i","n","]",NL,"d","e","s","c","r","i","p","t","i","o","n",":"," ",
    "A","n","a","l","y","z","e","s"," ","[","w","h","a","t","]"," ","t","o"," ","i","d",
    "e","n","t","i","f","y"," ","[","i","n","s","i","g","h","t","s","]","."," ","U","s",
    "e"," ","w","h","e","n"," ","u","s","e","r"," ","a","s","k","s"," ","t","o"," ","a",
    "n","a","l","y","z","e",","," ","r","e","v","i","e","w",","," ","a","s","s","e","s",
    "s",","," ","o","r"," ","e","v","a","l","u","a","t","e"," ","[","d","o","m","a","i",
    "n","]"," ","f","o","r"," ","[","p","u","r","p","o","s","e","s","]",".",NL,"-","-",
    "-",NL,NL,"#"," ","[","D","o","m","a","i","n","]"," ","A","n","a","l","y","s","i",
    "s",NL>>
     ELSE
    <<"-","-","-",NL,"n","a","m","e",":"," ","[","a","c","t","i","o","n","]","-","[","d",
    "o","m","a","i","n","]",NL,"d","e","s","c","r","i","p","t","i","o","n",":"," ","[",
    "W","h","a","t"," ","i","t"," ","d","o","e","s","]"," ","w","i","t","h","o","u","t",
    " ","m","a","k","i","n","g"," ","m","o","d","i","f","i","c","a","t","i","o","n","s",
    "."," ","U","s","e"," ","w","h","e","n"," ","u","s","e","r"," ","n","e","e","d","s",
    " ","t","o"," ","a","n","a","l","y","z","e",","," ","r","e","v","i","e","w",","," ",
    "o","r"," ","u","n","d","e","r","s","t","a","n","d"," ","[","d","o","m","a","i","n",
    "]"," ","w","i","t","h","o","u","t"," ","c","h","a","n","g","i","n","g"," ","a","n",
    "y","t","h","i","n","g",".",NL,"a","l","l","o","w","e","d","-","t","o","o","l","s",
    ":"," ","R","e","a","d",","," ","G","r","e","p",","," ","G","l","o","b",NL,"-","-",
    "-",NL,NL,"#"," ","[","D","o","m","a","i","n","]"," ","[","A","c","t","i","o","n",
    "]"," ","(","R","e","a","d","-","O","n","l","y",")",NL>>]

\* the replacement patterns of String.prototype.replace in the replacement
\* text r, read from position i: $$ is a dollar sign, $& the matched text,
\* $ with a grave accent the text before the match, $' the text after it;
\* any other $ stands for itself (the two expressions have no group)
RECURSIVE Expand(_, _, _, _, _)
Expand(r, i, matched, before, after) ==
  IF i > Len(r) THEN <<>>
  ELSE IF r[i] = "$" /\ i < Len(r) /\ r[i + 1] \in {"$", "&", BT, "'"}
  THEN (CASE r[i + 1] = "$" -> <<"$">>
          [] r[i + 1] = "&" -> matched
          [] r[i + 1] = BT -> before
          [] r[i + 1] = "'" -> after)
       \o Expand(r, i + 2, matched, before, after)
  ELSE <<r[i]>> \o Expand(r, i + 1, matched, before, after)

\* text.replace(/^key.+$/m, r), where key ends with the colon and the
\* space: the first line that starts with key and has a character after it
\* is replaced by the expansion of r
ReplaceLine(text, key, r) ==
  LET at == {i \in 1..Len(text) : /\ LineStart(text, i)
                                  /\ MatchAt(text, i, key)
                                  /\ i + Len(key) <= Len(text)
                                  /\ text[i + Len(key)] # NL}
  IN IF at = {} THEN text
     ELSE LET i == Min(at)
              e == LineEnd(text, i)
              before == Slice(text, 1, i - 1)
              after == Slice(text, e + 1, Len(text))
          IN before \o Expand(r, 1, Slice(text, i, e), before, after) \o after

\* copyDir(src, dest) for a template directory that holds SKILL.md only:
\* its calls that change the disk
copyDir == << "mkdirSync dest", "copyFileSync SKILL.md" >>

\* the wizard says why it stops, closes the readline interface and returns
Reject(reason, line) ==
  wizard' = [wizard EXCEPT !.pc = "closed", !.stopped = reason,
                           !.console = @ \o <<line>>]

\* the wizard does not touch the validator
ValidatorIdle ==
  UNCHANGED <<argv, fs, pc, validator, content, errors, warnings, stdout, stderr,
              calls, fsAccess, success, exitCode, finished>>

\* the name is asked for and checked
AskName ==
  /\ wizard.pc = "name"
  /\ \E name \in { <<>>, <<"m","y","-","s","k","i","l","l">>,
                   <<"M","y","_","S","k","i","l","l">>,
                   <<"c","l","a","u","d","e","-","h","e","l","p","e","r">>,
                   <<"p","d","f","-","2">>, Repeat("a", LongNameLength) } :
       IF name = <<>> \/ ~NameFormat(name)
       THEN Reject("name", "Invalid name")
       ELSE wizard' = [wizard EXCEPT !.pc = "description", !.name = name]
  /\ ValidatorIdle

\* the description is asked for and checked
AskDescription ==
  /\ wizard.pc = "description"
  /\ \E description \in
         { <<>>, <<"F","o","r","m","a","t","s"," ","t","a","b","l","e","s",".">>,
           <<"C","o","s","t","s"," ","$","&"," ","n","o","w">>,
           <<"P","a","y"," ","$","$","5">>,
           <<"Q","u","o","t","e"," ","$","'"," ","e","n","d">> } :
       IF description = <<>>
       THEN Reject("description", "Description is required")
       ELSE wizard' = [wizard EXCEPT !.pc = "template", !.description = description]
  /\ ValidatorIdle

\* the template is chosen from the menu
AskTemplate ==
  /\ wizard.pc = "template"
  /\ \E templateChoice \in {"1", "2", "5", "9", ""} :
       IF templateChoice \notin DOMAIN templates
       THEN Reject("template", "Invalid template choice")
       ELSE wizard' = [wizard EXCEPT !.pc = "location",
                                     !.template = templates[templateChoice]]
  /\ ValidatorIdle

\* the location is chosen
AskLocation ==
  /\ wizard.pc = "location"
  /\ \E locationChoice \in {"1", "2", "3", ""} :
       IF locationChoice = "1"
       THEN wizard' = [wizard EXCEPT !.pc = "create", !.baseDir = ".claude/skills"]
       ELSE IF locationChoice = "2"
       THEN wizard' = [wizard EXCEPT !.pc = "create", !.baseDir = "HOME/.claude/skills"]
       ELSE Reject("location", "Invalid location choice")
  /\ ValidatorIdle

\* the creation without the check that the skill directory does not exist
Create_Overwrites ==
  /\ wizard.pc = "create"
  /\ IF wizard.template \notin DOMAIN TemplateMd
     THEN Reject("no template", "Template not found")
     ELSE wizard' = [wizard EXCEPT
            !.pc = "closed",
            !.writes = <<"mkdirSync skillDir">> \o copyDir \o <<"writeFileSync SKILL.md">>,
            !.skillMd = ReplaceLine(ReplaceLine(TemplateMd[wizard.template], NamePrefix,
                                                NamePrefix \o wizard.name),
                                    DescriptionPrefix,
                                    DescriptionPrefix \o wizard.description),
            !.console = @ \o <<"Skill created successfully!">>]
  /\ ValidatorIdle

\* the two existence checks, then mkdirSync, copyDir and the rewrite of the
\* name and description lines of the copied SKILL.md
Create ==
  /\ wizard.pc = "create"
  /\ IF wizard.skillDirExists[wizard.baseDir]
     THEN Reject("exists", "Skill directory already exists")
     ELSE IF wizard.template \notin DOMAIN TemplateMd
     THEN Reject("no template", "Template not found")
     ELSE wizard' = [wizard EXCEPT
            !.pc = "closed",
            !.writes = <<"mkdirSync skillDir">> \o copyDir \o <<"writeFileSync SKILL.md">>,
            !.skillMd = ReplaceLine(ReplaceLine(TemplateMd[wizard.template], NamePrefix,
                                                NamePrefix \o wizard.name),
                                    DescriptionPrefix,
                                    DescriptionPrefix \o wizard.description),
            !.console = @ \o <<"Skill created successfully!">>]
  /\ ValidatorIdle

NextScaffold ==
  \/ AskName
  \/ AskDescription
  \/ AskTemplate
  \/ AskLocation
  \/ Create

\* the wizard has started and the validator is not running; under each of
\* the two locations a directory with the name that will be given exists
\* or does not
SpecScaffold ==
  /\ argv = [given |-> FALSE, value |-> <<>>]
  /\ fs = [dir |-> FALSE, skillMd |-> "missing", text |-> NoText, files |-> {}]
  /\ pc = "exited"
  /\ validator = NoValidator
  /\ content = NoText
  /\ errors = <<>>
  /\ warnings = <<>>
  /\ stdout = <<>>
  /\ stderr = <<>>
  /\ calls = <<>>
  /\ fsAccess = <<>>
  /\ success = NotReturned
  /\ exitCode = Running
  /\ finished = <<>>
  /\ \E here \in BOOLEAN, home \in BOOLEAN :
       wizard = [pc |-> "name", stopped |-> "", name |-> <<>>, description |-> <<>>,
                 template |-> "", baseDir |-> "",
                 skillDirExists |-> [d \in {".claude/skills", "HOME/.claude/skills"} |->
                                       IF d = ".claude/skills" THEN here ELSE home],
                 writes |-> <<>>, skillMd |-> NoText, console |-> <<>>]
  /\ [][NextScaffold]_vars

(***************************************************************************)
(* C21: the header of the created SKILL.md carries the given name and the  *)
(* given description                                                       *)
(***************************************************************************)
\* the wizard has created the package
Scaffolded == wizard.pc = "closed" /\ wizard.stopped = "" /\ wizard.writes # <<>>

\* the values of the header lines of `text` that start with `key`: what
\* follows the key on the line
FieldValues(text, key) ==
  LET open == {i \in LineStarts(text) : LineAt(text, i) = <<"-","-","-">>}
  IN IF Cardinality(open) < 2 THEN {}
     ELSE { SubSeq(LineAt(text, i), Len(key) + 1, Len(LineAt(text, i))) :
              i \in {j \in LineStarts(text) :
                       /\ Min(open) < j /\ j < Min(open \ {Min(open)})
                       /\ Len(LineAt(text, j)) >= Len(key)
                       /\ SubSeq(LineAt(text, j), 1, Len(key)) = key} }

\* C21: whenever the wizard has created a package, the header of its
\* SKILL.md has the given name as its name value and the given description,
\* character for character, as its description value.
C21_RoundTrip ==
  Scaffolded =>
    /\ FieldValues(wizard.skillMd, NamePrefix) = {wizard.name}
    /\ FieldValues(wizard.skillMd, DescriptionPrefix) = {wizard.description}

\* C21 for the name alone: the name value of the created header is the
\* given name (names hold no dollar sign).
C21_NameRoundTrip ==
  Scaffolded => FieldValues(wizard.skillMd, NamePrefix) = {wizard.name}

(***************************************************************************)
(* C29: a wizard that stops with a rejection has changed nothing on disk   *)
(***************************************************************************)
\* the reasons for which the wizard must stop, from the answers given and
\* the state of the disk
MustReject ==
  \/ wizard.name = <<>>
  \/ \E i \in 1..Len(wizard.name) : wizard.name[i] \notin IdentifierChars
  \/ wizard.description = <<>>
  \/ wizard.template \notin {"basic-skill", "analysis-skill", "generation-skill",
                             "workflow-skill", "tool-restricted-skill", "multi-file-skill",
                             "script-based-skill", "validation-skill"}
  \/ wizard.template \in {"basic-skill", "workflow-skill", "script-based-skill"}
  \/ wizard.baseDir = ""
  \/ wizard.skillDirExists[wizard.baseDir]

\* C29: a wizard that has closed after an invalid name, an empty
\* description, an invalid template or location choice, an existing skill
\* directory or a missing template directory has made no call that changes
\* the disk and has written no SKILL.md.
C29_RejectionWritesNothing ==
  (wizard.pc = "closed" /\ MustReject) =>
     /\ wizard.writes = <<>>
     /\ wizard.skillMd = NoText
     /\ wizard.stopped # ""

\* C29 witness: the wizard has stopped because the skill directory exists,
\* after every answer was accepted.
C29_Witness ==
  /\ wizard.pc = "closed"
  /\ wizard.stopped = "exists"
  /\ wizard.skillDirExists[wizard.baseDir]
  /\ wizard.template \in DOMAIN TemplateMd
  /\ wizard.writes = <<>>

(***************************************************************************)
(* C30: a name the wizard accepts passes validateName                      *)
(***************************************************************************)
\* C30: every name the wizard has accepted gets no Error from validateName.
C30_AcceptedNamesValidate ==
  (wizard.pc \notin {"name"} /\ wizard.stopped # "name") =>
     validateName(wizard.name).errors = <<>>

\* C30 for the created package: the name that validateFrontmatter reads
\* from the created SKILL.md gets no Error from validateName.
C30_CreatedPackageValidates ==
  Scaffolded =>
     /\ frontmatterRegex(wizard.skillMd).found
     /\ nameMatch(frontmatterRegex(wizard.skillMd).text).found
     /\ validateName(Trim(nameMatch(frontmatterRegex(wizard.skillMd).text).text)).errors = <<>>

(***************************************************************************)
(* Documents that vary the place of the opening delimiter and the lines    *)
(* between the delimiters                                                  *)
(***************************************************************************)
MaxHeaderParts == 3

\* the program run on documents that start with the opening delimiter,
\* with a blank line or with a title, and whose delimiters enclose up to
\* MaxHeaderParts lines: field lines, delimiter lines and lines that only
\* start with three hyphens
SpecHeaders ==
  InitWith({[given |-> TRUE, value |-> Root]},
           PackagesOf({ before \o Delimiter \o lines \o Delimiter \o Title :
                          before \in { <<>>, <<NL>>, <<"#"," ","D","o","c",NL>> },
                          lines \in Concatenations({ GoodNameLine, GoodDescriptionLine,
                                                     Delimiter,
                                                     <<"-","-","-","-",NL>>,
                                                     <<"-","-","-","x",NL>> },
                                                   MaxHeaderParts) }))
    /\ [][Next]_vars

\* the lines of `text` that equal the delimiter
MarkerLines(text) == {i \in LineStarts(text) : LineAt(text, i) = <<"-","-","-">>}

(***************************************************************************)
(* C22  Header location, as claimed: once the header check has run on a    *)
(* document with two lines equal to ---, no missing-header Error is there, *)
(* and a field is reported as missing exactly when no line between the     *)
(* first two such lines starts with its key.                               *)
(***************************************************************************)
C22_HeaderLocation ==
  (CountCalls("validateFrontmatter") = 1 /\ Cardinality(MarkerLines(fs.text)) >= 2) =>
    /\ ~HasError("YAML frontmatter is required but not found")
    /\ HasError("name field is required in frontmatter")
         <=> FieldValues(fs.text, NamePrefix) = {}
    /\ HasError("description field is required in frontmatter")
         <=> FieldValues(fs.text, DescriptionPrefix) = {}

\* the part of the claim the program keeps: when the document starts with
\* the opening delimiter, the delimiters enclose at least one line and no
\* line between them starts with three hyphens, the header is found and
\* both fields are read from it
C22_PlainHeader ==
  (CountCalls("validateFrontmatter") = 1
     /\ MarkerLines(fs.text) \cap (1..5) = {1} /\ Cardinality(MarkerLines(fs.text)) = 2
     /\ \A i \in LineStarts(fs.text) :
          Len(LineAt(fs.text, i)) > 3 => SubSeq(LineAt(fs.text, i), 1, 3) # <<"-","-","-">>) =>
    /\ ~HasError("YAML frontmatter is required but not found")
    /\ HasError("name field is required in frontmatter")
         <=> FieldValues(fs.text, NamePrefix) = {}
    /\ HasError("description field is required in frontmatter")
         <=> FieldValues(fs.text, DescriptionPrefix) = {}

(***************************************************************************)
(* Documents whose header holds what the body checks look for              *)
(***************************************************************************)
\* the program run on documents whose description holds a backslash, a
\* time phrase, a link to a file that does not exist, or none of them, and
\* whose body holds one of them or none, with and without the linked file
SpecHeaderText ==
  InitWith({[given |-> TRUE, value |-> Root]},
           { [dir |-> TRUE, skillMd |-> "file", files |-> f,
              text |-> Delimiter \o GoodNameLine \o DescriptionPrefix \o d
                         \o <<" ">> \o UseWhenText \o <<"Y",".",NL>> \o Delimiter \o Title \o b] :
               f \in FileSets,
               d \in { <<"D","o","e","s"," ","X",".">>,
                       <<"R","u","n","s"," ","a",BS,"b",".">>,
                       <<"W","o","r","k","s"," ","a","s"," ","o","f"," ","2","0","2","4",".">>,
                       <<"S","e","e"," ","[","r","e","f","]","(","m","i","s","s","i","n","g",".","m","d",")",".">> },
               b \in { <<>>,
                       <<"R","u","n"," ","s","c","r","i","p","t","s",BS,"v","a","l","i","d","a","t","e",".","p","y",NL>>,
                       <<"U","n","t","i","l"," ","2","0","2","4"," ","i","t"," ","w","o","r","k","s",".",NL>>,
                       <<"S","e","e"," ","[","r","e","f","]","(","m","i","s","s","i","n","g",".","m","d",")",NL>> } })
    /\ [][Next]_vars

(***************************************************************************)
(* C23  Body checks see only the body, as claimed: once the resolver has   *)
(* run on a document with a header, a Windows-path Error is there only if  *)
(* the text after the closing delimiter holds a backslash, a time Warning  *)
(* only if it holds a digit, and a missing-reference Error only if it      *)
(* holds a link.                                                           *)
(***************************************************************************)
C23_BodyOnly ==
  (CountCalls("validateReferences") = 1 /\ HeaderFound) =>
    LET b == Body(fs.text)
    IN /\ HasError("Windows-style paths found") => \E i \in 1..Len(b) : b[i] = BS
       /\ HasWarning("Time-sensitive information detected")
            => \E i \in 1..Len(b) : b[i] \in {"0","1","2","3","4","5","6","7","8","9"}
       /\ HasError("Referenced file does not exist")
            => \E i \in 1..(Len(b) - 1) : b[i] = "]" /\ b[i + 1] = "("

\* the part of the claim the program keeps: when the header holds no
\* backslash, no digit and no link, the three diagnostics come from the body
C23_CleanHeader ==
  (CountCalls("validateReferences") = 1 /\ HeaderFound
     /\ \A i \in 1..Len(Header) : Header[i] \notin {BS, "2", "]"}) =>
    LET b == Body(fs.text)
    IN /\ HasError("Windows-style paths found") => \E i \in 1..Len(b) : b[i] = BS
       /\ HasWarning("Time-sensitive information detected")
            => \E i \in 1..Len(b) : b[i] \in {"0","1","2","3","4","5","6","7","8","9"}
       /\ HasError("Referenced file does not exist")
            => \E i \in 1..(Len(b) - 1) : b[i] = "]" /\ b[i + 1] = "("

(***************************************************************************)
(* C24  Path-separator report, as claimed: once the content check has run  *)
(* on a document with a header, there is at most one Windows-path Error,   *)
(* and the snippet it quotes is text of the document that starts at the    *)
(* first backslash that is not preceded by a backtick and not followed by  *)
(* an escape character.                                                    *)
(***************************************************************************)
\* the backslashes of `text` that the rule does not exempt
OffendingAt(text) ==
  {i \in 1..Len(text) : /\ text[i] = BS
                        /\ (i = 1 \/ text[i - 1] # BT)
                        /\ ~(i < Len(text) /\ text[i + 1] \in EscapeChars)}

C24_SnippetAtFirstOffence ==
  (CountCalls("validateContent") = 1 /\ HeaderFound) =>
    /\ CountErrors("Windows-style paths found") <= 1
    /\ \A i \in 1..Len(errors) :
         errors[i][1] = "Windows-style paths found" =>
           /\ OffendingAt(fs.text) # {}
           /\ Len(errors[i][2]) >= 1
           /\ MatchAt(fs.text, Min(OffendingAt(fs.text)), errors[i][2])

\* the part of the claim the program keeps: the check adds at most one
\* Windows-path Error, and its snippet starts with a backslash
C24_SingleError ==
  (CountCalls("validateContent") = 1 /\ HeaderFound) =>
    /\ CountErrors("Windows-style paths found") <= 1
    /\ \A i \in 1..Len(errors) :
         errors[i][1] = "Windows-style paths found" =>
           Len(errors[i][2]) >= 1 /\ errors[i][2][1] = BS

(***************************************************************************)
(* Documents whose header lines come in every order, with and without a    *)
(* value                                                                   *)
(***************************************************************************)
MaxFieldLines == 3

\* the program run on documents whose header is up to MaxFieldLines lines:
\* field lines with a value, field lines without one, and an indented line
SpecFields ==
  InitWith({[given |-> TRUE, value |-> Root]},
           PackagesOf({ Delimiter \o lines \o Delimiter \o Title :
                          lines \in Concatenations({ GoodNameLine, GoodDescriptionLine,
                                                     <<"n","a","m","e",":",NL>>,
                                                     <<"n","a","m","e",":"," ",NL>>,
                                                     <<"d","e","s","c","r","i","p","t","i","o","n",":",NL>>,
                                                     <<"a","l","l","o","w","e","d","-","t","o","o","l","s",":"," ","R","e","a","d",NL>>,
                                                     <<" "," ","o","t","h","e","r","-","s","k","i","l","l",NL>> },
                                                   MaxFieldLines) }))
    /\ [][Next]_vars

\* a value of white space only
Blank(v) == \A i \in 1..Len(v) : v[i] \in {" ", TAB}

\* v without the white space around it
Stripped(v) ==
  LET keep == {i \in 1..Len(v) : v[i] \notin {" ", TAB}}
  IN IF keep = {} THEN <<>> ELSE SubSeq(v, Min(keep), Max(keep))

\* the Errors about the name field
NameFieldErrors ==
  Cardinality({i \in 1..Len(errors) :
                 errors[i][1] \in NameErrorTexts \cup {"name field is required in frontmatter"}})

(***************************************************************************)
(* C25  Empty identifier, as claimed: once the header check has run on a   *)
(* document whose header was found, a header whose name lines all lack a   *)
(* value has an Error about the name field, every name handed to           *)
(* validateName is the value of a name line of the header, and a header    *)
(* whose description lines all lack a value has an Error about the         *)
(* description field.                                                      *)
(***************************************************************************)
C25_ValueFromOwnLine ==
  (CountCalls("validateFrontmatter") = 1 /\ HeaderFound) =>
    LET names == FieldValues(fs.text, <<"n","a","m","e",":">>)
        descriptions == FieldValues(fs.text, <<"d","e","s","c","r","i","p","t","i","o","n",":">>)
    IN /\ (names # {} /\ \A v \in names : Blank(v)) => NameFieldErrors >= 1
       /\ \A n \in ValidatedNames : \E v \in names : Stripped(v) = n
       /\ (descriptions # {} /\ \A v \in descriptions : Blank(v)) =>
            \/ HasError("description field is required in frontmatter")
            \/ HasError("description cannot be empty")

\* the part of the claim the program keeps: when the name lines and the
\* description lines of the header all carry a value, the name handed to
\* validateName is the value of the first name line
C25_ValuedLines ==
  (CountCalls("validateFrontmatter") = 1 /\ HeaderFound
     /\ \A v \in FieldValues(fs.text, <<"n","a","m","e",":">>) : ~Blank(v)
     /\ \A w \in FieldValues(fs.text, <<"d","e","s","c","r","i","p","t","i","o","n",":">>) :
          ~Blank(w)) =>
    \A n \in ValidatedNames :
      \E x \in FieldValues(fs.text, <<"n","a","m","e",":">>) : Stripped(x) = n

(***************************************************************************)
(* Documents that vary the time phrases of the body                        *)
(***************************************************************************)
MaxTimeParts == 4

\* the program run on documents whose body is up to MaxTimeParts phrases:
\* each of the four words with a year, in mixed letter case, and a word
\* with two digits only
SpecTimes ==
  InitWith({[given |-> TRUE, value |-> Root]},
           PackagesOf({ Delimiter \o GoodNameLine \o GoodDescriptionLine \o Delimiter \o b :
                          b \in Concatenations({ <<"B","e","f","o","r","e"," ","2","0","2","0"," ">>,
                                                 <<"a","f","t","e","r"," ","1","9","9","9"," ">>,
                                                 <<"U","N","T","I","L"," ","2","0","2","4"," ">>,
                                                 <<"a","s"," ","o","f"," ","2","0","2","3",NL>>,
                                                 <<"a","s"," ","o","f"," ","2","0"," ">> },
                                               MaxTimeParts) }))
    /\ [][Next]_vars

TimeWords == { <<"b","e","f","o","r","e">>, <<"a","f","t","e","r">>,
               <<"u","n","t","i","l">>, <<"a","s"," ","o","f">> }

\* `word`, in any letter case, then a space and four digits, occurs in b
YearAfter(b, word) ==
  \E i \in 1..Len(b) :
    /\ i + Len(word) + 4 <= Len(b)
    /\ \A k \in 1..Len(word) : ToLower(b[i + k - 1]) = word[k]
    /\ b[i + Len(word)] = " "
    /\ \A k \in 1..4 : b[i + Len(word) + k] \in {"0","1","2","3","4","5","6","7","8","9"}

(***************************************************************************)
(* C26  Time-anchoring count: once the content check has run on a document *)
(* with a header, the number of time Warnings is the number of the four    *)
(* words that occur in the body followed by a space and four digits, in    *)
(* any letter case: between 0 and 4, none when no word occurs so, and no   *)
(* more when a word occurs several times; each of them is the same         *)
(* message, and none is an Error.                                          *)
(***************************************************************************)
C26_TimeCount ==
  (CountCalls("validateContent") = 1 /\ HeaderFound) =>
    /\ CountWarnings("Time-sensitive information detected")
         = Cardinality({w \in TimeWords : YearAfter(Body(fs.text), w)})
    /\ CountWarnings("Time-sensitive information detected") \in 0..4
    /\ \A i \in 1..Len(warnings) :
         warnings[i][1] = "Time-sensitive information detected"
           => warnings[i] = <<"Time-sensitive information detected">>
    /\ ~HasError("Time-sensitive information detected")

\* C26 witness: a run has ended on a body in which all four words occur
\* with a year, with four time Warnings.
C26_Witness ==
  /\ pc = "exited"
  /\ \A w \in TimeWords : YearAfter(Body(fs.text), w)
  /\ CountWarnings("Time-sensitive information detected") = 4

\* C26 for a repeated phrase: a run has ended on a body in which one word
\* occurs with a year more than once, with one time Warning.
C26_RepeatedPhrase ==
  /\ pc = "exited"
  /\ \E i, j \in 1..Len(Body(fs.text)) :
       /\ i < j
       /\ MatchAtCI(Body(fs.text), i, <<"u","n","t","i","l"," ","2","0","2","4">>)
       /\ MatchAtCI(Body(fs.text), j, <<"u","n","t","i","l"," ","2","0","2","4">>)
  /\ CountWarnings("Time-sensitive information detected") = 1

(***************************************************************************)
(* Packages whose links leave the package directory                        *)
(***************************************************************************)
\* the program run on packages whose body links to a.md, to docs/../a.md
\* and to ../other/file.md, where a.md may exist in the package and
\* other/file.md may exist beside the package directory
SpecOutside ==
  InitWith({[given |-> TRUE, value |-> Root]},
           { [dir |-> TRUE, skillMd |-> "file", files |-> f,
              text |-> Delimiter \o GoodNameLine \o GoodDescriptionLine \o Delimiter
                         \o Title \o b] :
               f \in SUBSET { [up |-> 0, down |-> << <<"a",".","m","d">> >>],
                              [up |-> 1, down |-> << <<"o","t","h","e","r">>,
                                                     <<"f","i","l","e",".","m","d">> >>] },
               b \in Concatenations({ LinkLine(<<"a",".","m","d">>),
                                      LinkLine(<<"d","o","c","s","/",".",".","/","a",".","m","d">>),
                                      LinkLine(<<".",".","/","o","t","h","e","r","/","f","i","l","e",".","m","d">>) },
                                    MaxLinks) })
    /\ [][Next]_vars

\* the link targets of the body that start by leaving the package directory
OutsideTargets ==
  LET targets == TargetsFrom(Body(fs.text), 1)
  IN {targets[i] : i \in {j \in 1..Len(targets) :
                            /\ Len(targets[j]) >= 3
                            /\ SubSeq(targets[j], 1, 3) = <<".",".","/">>}}

(***************************************************************************)
(* C27  Reference containment, as claimed: once the resolver has run on a  *)
(* document with a header, every link target that starts with ../ is named *)
(* by a missing-reference Error, whatever files exist outside the package. *)
(***************************************************************************)
C27_Containment ==
  (CountCalls("validateReferences") = 1 /\ HeaderFound) =>
    \A x \in OutsideTargets :
      \E i \in 1..Len(errors) : errors[i] = <<"Referenced file does not exist", x>>

\* the part of the claim the program keeps: a target that starts with ../
\* is reported when no file exists outside the package
C27_NothingOutside ==
  (CountCalls("validateReferences") = 1 /\ HeaderFound
     /\ \A f \in fs.files : f.up = 0) =>
    \A x \in OutsideTargets :
      \E i \in 1..Len(errors) : errors[i] = <<"Referenced file does not exist", x>>

(***************************************************************************)
(* C28  Confirmation lines are truthful, as claimed: a run that has        *)
(* printed the line `name field valid` holds no Error of validateName, and *)
(* a run that has printed `description field valid` holds no Error of      *)
(* validateDescription.                                                    *)
(***************************************************************************)
DescriptionErrorCount ==
  Cardinality({i \in 1..Len(errors) :
                 errors[i][1] \in {"description is too long", "description cannot be empty",
                                   "description cannot contain XML tags"}})

C28_ConfirmationsTruthful ==
  /\ Printed("name field valid") => NameErrorCount = 0
  /\ Printed("description field valid") => DescriptionErrorCount = 0

\* the part of the claim the program keeps: a run without an Error of
\* validateName that has checked the name has printed the name line
C28_ValidNamesConfirmed ==
  (Returned /\ CountCalls("validateName") = 1 /\ NameErrorCount = 0) =>
    Printed("name field valid")

====
